---- MODULE Spec2Model ----
(***************************************************************************)
(* Wisp runtime core: the generational collector (ggc.c) and the scoped    *)
(* symbol table (symtab.c, arena.c).                                       *)
(*                                                                         *)
(* The heap is modelled word by word (one word = 8 bytes = one size_t or   *)
(* one pointer).  Addresses are word indices, NULL is 0.  A GCInfo header  *)
(* is four words: gen, age, obj_size, forwarding_ptr.                      *)
(***************************************************************************)
EXTENDS Integers, Sequences, FiniteSets, TLC

(* ------------------------------ bounds --------------------------------- *)
\* region sizes in units of DEFAULT_ALIGN (the GGC_*_SIZE macros are
\* multiples of 16 bytes); scaled down from 2 MiB / 1 MiB / 2 MiB
EdenUnits == 8
SurvivorUnits == 8
OldUnits == 12
\* number of operations the mutator performs (requests, root pushes and
\* pops, stores)
MaxSteps == 7
\* number of operations of the mutator that only allocates and pushes roots
MaxApiSteps == 5

(* ------------------------- program constants --------------------------- *)
\* DEFAULT_ALIGN is 16 bytes = 2 words
DEFAULT_ALIGN == 2
\* sizeof(GCInfo) = 4 fields of 8 bytes = 4 words
SizeofGCInfo == 4
\* gc->promotion_age_threshold
PromotionAgeThreshold == 3
NULL == 0

\* field offsets inside GCInfo
OffGen == 0
OffAge == 1
OffSize == 2
OffFwd == 3

(* ------------------------------ layout --------------------------------- *)
\* heap_init: p = align_up_ptr(raw); Eden, S0, S1, Old follow each other
HeapBase == DEFAULT_ALIGN
EdenStart == HeapBase
EdenEnd == EdenStart + DEFAULT_ALIGN * EdenUnits
S0Start == EdenEnd
S0End == S0Start + DEFAULT_ALIGN * SurvivorUnits
S1Start == S0End
S1End == S1Start + DEFAULT_ALIGN * SurvivorUnits
OldStart == S1End
OldEnd == OldStart + DEFAULT_ALIGN * OldUnits
\* total_size = eden + 2*survivor + old + align
MemTop == OldEnd + DEFAULT_ALIGN
Addr == 0..(MemTop - 1)

\* the mutator's object: a cell with two pointer fields, a tag and a mark
OffCar == 0
OffCdr == 1
OffTag == 2
OffMark == 3
CellBody == OffMark + 1
CellSize == SizeofGCInfo + CellBody
\* a cell followed by four more payload words
MidSize == CellSize + CellBody
\* a request larger than Eden (served from the old generation)
BigSize == DEFAULT_ALIGN * EdenUnits + SizeofGCInfo
AllocSizes == {0, CellSize, BigSize}
ApiSizes == AllocSizes \cup {MidSize}
\* what a word of the malloc'd heap that was never written may hold
Indeterminate == {NULL, EdenStart}

VARIABLES mem, bump_ptr, to_space_is_s0, old_bump_ptr, stack,
          collection_in_progress, pc, req, ret, last, tried,
          nalloc, nsteps, rootTag, young, pre

VARIABLES tabs, syms, blocks, scopes, rc, found, lastop, nops,
          defval, crashed, nameOut

symvars == <<tabs, syms, blocks, scopes, rc, found, lastop, nops,
             defval, crashed, nameOut>>

gcvars == <<mem, bump_ptr, to_space_is_s0, old_bump_ptr, stack,
            collection_in_progress, pc, req, ret, last, tried,
            nalloc, nsteps, rootTag, young, pre>>

\* the lexer: the source text, the tokens of the last lex_tokens call, the
\* nesting and quote state of the text built so far, whether it was lexed
VARIABLES source, tokens, shape, lexed

lexvars == <<source, tokens, shape, lexed>>

\* the parser: the token vector handed to parse_program, its result, and
\* whether the call was made
VARIABLES ptokens, program, parsed

parsevars == <<ptokens, program, parsed>>

\* the evaluator: the scopes and whether their arena is still mapped, the
\* parameter tokens of the functions, the result cache, the work stack, *out,
\* the last return code, where the evaluation stands, the root expression,
\* the records kept of what was evaluated when, and the program flux (the
\* token vector and the s-expressions handed to the evaluator)
VARIABLES envs, arena_live, fparams, cache, wstack, outv, svm_rc, svm_pc, root,
          evlog, applied, called, nevals, nsvm, prog

svmvars == <<envs, arena_live, fparams, cache, wstack, outv, svm_rc, svm_pc, root,
             evlog, applied, called, nevals, nsvm, prog>>

\* what each component leaves alone
\* main: its position, its exit code, the outcome of its stages
VARIABLES main_pc, exit_code, failed, nsexprs, expr_idx, eval_cache, eval_results

mainvars == <<main_pc, exit_code, failed, nsexprs, expr_idx, eval_cache, eval_results>>

\* the arena on its own: the blocks created, the handle the owner holds, the
\* last call and what it returned, the blocks chained so far, the calls made
VARIABLES ablocks, ahandle, alast, agrown, anops

arenavars == <<ablocks, ahandle, alast, agrown, anops>>

\* the vector on its own: its storage and counters, the sequence it should
\* hold, the last call with what it returned and what a sequence returns
VARIABLES vec, vabs, vlast, vnops

vecvars == <<vec, vabs, vlast, vnops>>

\* the built-in lookup: the last call of find_builtin and what it returned
VARIABLES fb_last

fbvars == <<fb_last>>

\* the scanning loop of lex_tokens taken one iteration at a time: where the
\* call stands, its read position, and the byte behind the buffer
VARIABLES scan

scanvars == <<scan>>

\* the payloads the allocators returned since the last collection: pointer,
\* requested size and the region the object lies in
VARIABLES allocated

layoutvars == <<allocated>>

\* the ranges arena_alloc returned since the arena was created or last reset:
\* block, offset in the block and requested size
VARIABLES areturned

rangevars == <<areturned>>

nongc == <<symvars, lexvars, parsevars, svmvars, mainvars, arenavars, vecvars, fbvars,
          scanvars, layoutvars, rangevars>>
nonsym == <<gcvars, lexvars, parsevars, svmvars, mainvars, arenavars, vecvars, fbvars,
           scanvars, layoutvars, rangevars>>
nonlex == <<gcvars, symvars, parsevars, svmvars, mainvars, arenavars, vecvars, fbvars,
           scanvars, layoutvars, rangevars>>
nonparse == <<gcvars, symvars, lexvars, svmvars, mainvars, arenavars, vecvars, fbvars,
             scanvars, layoutvars, rangevars>>
nonsvm == <<gcvars, symvars, lexvars, parsevars, mainvars, arenavars, vecvars, fbvars,
           scanvars, layoutvars, rangevars>>
nonmain == <<gcvars, symvars, lexvars, parsevars, svmvars, arenavars, vecvars, fbvars,
            scanvars, layoutvars, rangevars>>
nonarena == <<gcvars, symvars, lexvars, parsevars, svmvars, mainvars, vecvars, fbvars,
             scanvars, layoutvars, rangevars>>
nonvec == <<gcvars, symvars, lexvars, parsevars, svmvars, mainvars, arenavars, fbvars,
           scanvars, layoutvars, rangevars>>
nonfb == <<gcvars, symvars, lexvars, parsevars, svmvars, mainvars, arenavars, vecvars,
          scanvars, layoutvars, rangevars>>
nonscan == <<gcvars, symvars, parsevars, svmvars, mainvars, arenavars, vecvars, fbvars,
            layoutvars, rangevars>>
\* the allocators with the record of what they returned
nonlayout == <<symvars, lexvars, parsevars, svmvars, mainvars, arenavars, vecvars, fbvars,
              scanvars, rangevars>>
\* the arena with the record of what it returned
nonrange == <<gcvars, symvars, lexvars, parsevars, svmvars, mainvars, vecvars, fbvars,
             scanvars, layoutvars>>

vars == <<gcvars, symvars, lexvars, parsevars, svmvars, mainvars, arenavars, vecvars, fbvars,
         scanvars, layoutvars, rangevars>>

(* ------------------------------ helpers -------------------------------- *)
\* align_up_size / align_up_ptr: (n + (a-1)) & ~(a-1), a a power of two
align_up(n, a) == ((n + (a - 1)) \div a) * a

Rd(m, a) == IF a \in DOMAIN m THEN m[a] ELSE 0

gc_header_from_obj(obj) == obj - SizeofGCInfo

\* the reference-extraction callback of the mutator: the two pointer fields
extract_refs(body) == <<body + OffCar, body + OffCdr>>

ToStart(flag) == IF flag THEN S0Start ELSE S1Start
ToEnd(flag) == IF flag THEN S0End ELSE S1End
FromStart(flag) == IF flag THEN S1Start ELSE S0Start
FromEnd(flag) == IF flag THEN S1End ELSE S0End

InEden(a) == a >= EdenStart /\ a < EdenEnd
InFromSurvivor(a, flag) == a >= FromStart(flag) /\ a < FromEnd(flag)
InOld(a) == a >= OldStart /\ a < OldEnd

is_in_from_space(obj_body, flag) ==
    /\ obj_body # NULL
    /\ LET header_addr == gc_header_from_obj(obj_body)
       IN  \/ (header_addr >= EdenStart /\ header_addr < EdenEnd)
           \/ (header_addr >= FromStart(flag) /\ header_addr < FromEnd(flag))

WriteWord(m, a, v) == IF a \in DOMAIN m THEN [m EXCEPT ![a] = v] ELSE m

(* ----------------------------- copy_obj -------------------------------- *)
\* rewrite each slot whose referent's header carries a forwarding pointer
RECURSIVE FixSlots(_, _, _)
FixSlots(m, slots, i) ==
    IF i > Len(slots) THEN m
    ELSE LET ref_location == slots[i]
             old_target == Rd(m, ref_location)
             fwd == Rd(m, gc_header_from_obj(old_target) + OffFwd)
         IN  IF old_target # NULL /\ fwd # NULL
             THEN FixSlots(WriteWord(m, ref_location, fwd + SizeofGCInfo), slots, i + 1)
             ELSE FixSlots(m, slots, i + 1)

\* memcpy(to_space, obj, obj->obj_size); obj->forwarding_ptr = to_space;
\* then forward the slots of the copy whose referents already moved
copy_obj(m, obj, to_space) ==
    LET obj_size == Rd(m, obj + OffSize)
        m1 == [a \in DOMAIN m |->
                 IF a >= to_space /\ a < to_space + obj_size
                 THEN Rd(m, obj + (a - to_space)) ELSE m[a]]
        m2 == WriteWord(m1, obj + OffFwd, to_space)
    IN  FixSlots(m2, extract_refs(to_space + SizeofGCInfo), 1)

(* -------------------------- gc_minor_collect --------------------------- *)
\* enqueue the referents of slots that lie in from-space and are not forwarded
RECURSIVE EnqueueRefs(_, _, _, _, _)
EnqueueRefs(m, wl, slots, k, flag) ==
    IF k > Len(slots) THEN wl
    ELSE LET target_body == Rd(m, slots[k])
         IN  IF /\ target_body # NULL
                /\ Rd(m, gc_header_from_obj(target_body) + OffFwd) = NULL
                /\ is_in_from_space(target_body, flag)
             THEN EnqueueRefs(m, Append(wl, target_body), slots, k + 1, flag)
             ELSE EnqueueRefs(m, wl, slots, k + 1, flag)

\* step 1: the root value itself is used as the GCInfo* whose forwarding_ptr
\* is tested, and pushed unchanged on the worklist
RECURSIVE SeedRoots(_, _, _, _, _)
SeedRoots(m, stk, i, wl, flag) ==
    IF i > Len(stk) THEN wl
    ELSE LET header == stk[i]
         IN  IF /\ header # NULL
                /\ Rd(m, header + OffFwd) = NULL
                /\ is_in_from_space(header, flag)
             THEN SeedRoots(m, stk, i + 1, Append(wl, header), flag)
             ELSE SeedRoots(m, stk, i + 1, wl, flag)

\* step 2: walk the old generation object by object (p_old += obj_size)
RECURSIVE SeedOld(_, _, _, _, _)
SeedOld(m, p_old, end_old, wl, flag) ==
    IF p_old >= end_old THEN wl
    ELSE LET size_old == Rd(m, p_old + OffSize)
             wl1 == EnqueueRefs(m, wl, extract_refs(p_old + SizeofGCInfo), 1, flag)
         IN  IF size_old <= 0 THEN wl1
             ELSE SeedOld(m, p_old + size_old, end_old, wl1, flag)

\* copy into the to-space, store the incremented age, enqueue the referents
CopyToSurvivor(g, header, new_location, new_age, flag) ==
    LET m1 == copy_obj(g.mem, header, new_location)
        m2 == WriteWord(m1, new_location + OffAge, new_age)
    IN  [g EXCEPT !.mem = m2,
                  !.to_bump = new_location + Rd(m2, header + OffSize),
                  !.wl = EnqueueRefs(m2, g.wl, extract_refs(new_location + SizeofGCInfo), 1, flag)]

\* copy into the old generation, gen = 1, age = 0, enqueue the referents
CopyToOld(g, header, new_location_old, flag) ==
    LET m1 == copy_obj(g.mem, header, new_location_old)
        m2 == WriteWord(m1, new_location_old + OffGen, 1)
        m3 == WriteWord(m2, new_location_old + OffAge, 0)
    IN  [g EXCEPT !.mem = m3,
                  !.old_bump = new_location_old + Rd(m3, header + OffSize),
                  !.wl = EnqueueRefs(m3, g.wl, extract_refs(new_location_old + SizeofGCInfo), 1, flag)]

\* "continue": the object stays where it is; the headers left behind for
\* lack of room are kept in g.skipped
Skip(g, header) == [g EXCEPT !.skipped = g.skipped \cup {header}]

\* step 3: drain the worklist (vec_pop_get takes the last element)
RECURSIVE Drain(_, _)
Drain(g, flag) ==
    IF Len(g.wl) = 0 THEN g
    ELSE LET obj_body == g.wl[Len(g.wl)]
             g1 == [g EXCEPT !.wl = SubSeq(g.wl, 1, Len(g.wl) - 1)]
             header == gc_header_from_obj(obj_body)
             obj_size == Rd(g.mem, header + OffSize)
             new_age == (Rd(g.mem, header + OffAge) + 1) % 256
             new_location == align_up(g.to_bump, DEFAULT_ALIGN)
             new_location_old == align_up(g.old_bump, DEFAULT_ALIGN)
         IN  IF Rd(g.mem, header + OffFwd) # NULL THEN Drain(g1, flag)
             ELSE IF new_age < PromotionAgeThreshold
             THEN IF new_location + obj_size > ToEnd(flag)
                  THEN Drain(Skip(g1, header), flag)
                  ELSE Drain(CopyToSurvivor(g1, header, new_location, new_age, flag), flag)
             ELSE IF new_location_old + obj_size > OldEnd
             THEN IF new_location + obj_size > ToEnd(flag)
                  THEN Drain(Skip(g1, header), flag)
                  ELSE Drain(CopyToSurvivor(g1, header, new_location, new_age, flag), flag)
             ELSE Drain(CopyToOld(g1, header, new_location_old, flag), flag)

\* step 4: rewrite the roots whose referent's header is forwarded
RECURSIVE FixRoots(_, _, _)
FixRoots(m, stk, i) ==
    IF i > Len(stk) THEN stk
    ELSE LET obj == stk[i]
             fwd == Rd(m, gc_header_from_obj(obj) + OffFwd)
         IN  IF obj # NULL /\ fwd # NULL
             THEN FixRoots(m, [stk EXCEPT ![i] = fwd + SizeofGCInfo], i + 1)
             ELSE FixRoots(m, stk, i + 1)

\* step 5: rewrite the slots of every old-generation object
RECURSIVE FixOld(_, _, _)
FixOld(m, p_fix, end_fix) ==
    IF p_fix >= end_fix THEN m
    ELSE LET size_fix == Rd(m, p_fix + OffSize)
             m1 == FixSlots(m, extract_refs(p_fix + SizeofGCInfo), 1)
         IN  IF size_fix <= 0 THEN m1
             ELSE FixOld(m1, p_fix + size_fix, end_fix)

\* the whole collection; yields the new heap, roots, old bump pointer and flag
gc_minor_collect(m, stk, old_bump, flag) ==
    LET wl0 == SeedRoots(m, stk, 1, <<>>, flag)
        wl1 == SeedOld(m, OldStart, old_bump, wl0, flag)
        g == Drain([mem |-> m, wl |-> wl1, to_bump |-> ToStart(flag),
                    old_bump |-> old_bump, skipped |-> {}], flag)
        stk1 == FixRoots(g.mem, stk, 1)
        m1 == FixOld(g.mem, OldStart, g.old_bump)
    IN  [mem |-> m1, stack |-> stk1, old_bump |-> g.old_bump,
         to_space_is_s0 |-> ~flag, bump_ptr |-> EdenStart, skipped |-> g.skipped]

\* gc_major_collect has an empty body
gc_major_collect(m, stk, old_bump) == [mem |-> m, stack |-> stk, old_bump |-> old_bump]

(* ----------------------------- allocation ------------------------------ *)
\* memset(p, 0, total); header->obj_size = total; header->gen = 0; header->age = 0
InitObject(m, p, total) ==
    LET m0 == [a \in DOMAIN m |-> IF a >= p /\ a < p + total THEN 0 ELSE m[a]]
        m1 == WriteWord(m0, p + OffSize, total)
        m2 == WriteWord(m1, p + OffGen, 0)
    IN  WriteWord(m2, p + OffAge, 0)

\* the mutator stores the cell's tag once the allocator has returned the body
MutatorInit(m, body, tag) == WriteWord(m, body + OffTag, tag)

\* (size_t)(end - p): a negative difference wraps to a huge unsigned value
\* (2^30 stands for 2^64, beyond every request of the model)
Avail(end, p) == IF end >= p THEN end - p ELSE (end - p) + 2 ^ 30

NoRoom_Eager(total, end, p) == total >= Avail(end, p)
\* if (total > avail): the bump attempt in the region ending at end fails
NoRoom(total, end, p) == total > Avail(end, p)

\* the young objects left after a minor collection: the to-space copies
YoungAfter(m, yg, flag) ==
    {Rd(m, h + OffFwd) : h \in {x \in yg : /\ Rd(m, x + OffFwd) >= ToStart(flag)
                                           /\ Rd(m, x + OffFwd) < ToEnd(flag)}}

\* the collector's state as the allocators see it, and what a call returned:
\* the pointer, whether it ran a minor and a major collection
GcState(m, stk, bump, old_bump, flag, in_progress) ==
    [mem |-> m, stack |-> stk, bump |-> bump, old_bump |-> old_bump, flag |-> flag,
     in_progress |-> in_progress, ret |-> NULL, minor |-> FALSE, major |-> FALSE]

\* gc_alloc_old(gc, size_body): the major collection is skipped while a
\* collection is in progress and reclaims nothing otherwise; the header's
\* obj_size, age and gen are written and the payload is zeroed, the
\* forwarding_ptr word keeps what the heap block held (junk)
gc_alloc_old(c, size_body, junk) ==
    LET p == align_up(c.old_bump, DEFAULT_ALIGN)
        total == align_up(size_body, DEFAULT_ALIGN)
        Served(m) == [c EXCEPT !.mem = m, !.old_bump = p + total,
                               !.ret = p + SizeofGCInfo]
    IN  IF size_body = 0 THEN c
        ELSE IF Avail(OldEnd, p) < total THEN [c EXCEPT !.major = ~c.in_progress]
        ELSE Served(WriteWord(InitObject(c.mem, p, total), p + OffFwd, junk))

\* gc_alloc_nursery(gc, size_body) from entry to return
gc_alloc_nursery(c, size_body) ==
    LET total == align_up(size_body, DEFAULT_ALIGN)
        InEdenAt(d, p) ==
            [d EXCEPT !.mem = InitObject(d.mem, p, total), !.bump = p + total,
                      !.ret = p + SizeofGCInfo]
        InOldAt(d, op) ==
            [d EXCEPT !.mem = InitObject(d.mem, op, total), !.old_bump = op + total,
                      !.ret = op + SizeofGCInfo]
        Second(d) ==
            IF NoRoom(total, EdenEnd, align_up(d.bump, DEFAULT_ALIGN))
            THEN IF NoRoom(total, OldEnd, align_up(d.old_bump, DEFAULT_ALIGN))
                 THEN [d EXCEPT !.major = TRUE]
                 ELSE InOldAt(d, align_up(d.old_bump, DEFAULT_ALIGN))
            ELSE InEdenAt(d, align_up(d.bump, DEFAULT_ALIGN))
        Collected(r) ==
            Second([c EXCEPT !.mem = r.mem, !.stack = r.stack,
                             !.old_bump = r.old_bump, !.flag = r.to_space_is_s0,
                             !.bump = r.bump_ptr, !.in_progress = FALSE,
                             !.minor = TRUE])
    IN  IF size_body = 0 THEN c
        ELSE IF NoRoom(total, EdenEnd, align_up(c.bump, DEFAULT_ALIGN))
        THEN Collected(gc_minor_collect(c.mem, c.stack, c.old_bump, c.flag))
        ELSE InEdenAt(c, align_up(c.bump, DEFAULT_ALIGN))

\* no allocation was made from the reference-extraction callback
NoCallback == [which |-> "none", ret |-> NULL, minor |-> FALSE, major |-> FALSE,
               bumped |-> FALSE]

GcInit ==
    /\ mem = [a \in Addr |-> 0]
    /\ bump_ptr = EdenStart
    /\ to_space_is_s0 = TRUE
    /\ old_bump_ptr = OldStart
    /\ stack = <<>>
    /\ collection_in_progress = FALSE
    /\ pc = "idle"
    /\ req = 0
    /\ ret = NULL
    /\ last = NULL
    /\ tried = <<>>
    /\ nalloc = 0
    /\ nsteps = 0
    /\ rootTag = <<>>
    /\ young = {}
    /\ pre = [mem |-> [a \in Addr |-> 0], stack |-> <<>>, flag |-> TRUE,
              old_bump |-> OldStart, young |-> {}, bump |-> EdenStart, n |-> 0,
              left |-> {}, cb |-> NoCallback]

\* gc_alloc_nursery up to its first return or to the end of the minor collection
AllocNursery(size_body) ==
    /\ pc = "idle"
    /\ UNCHANGED nongc
    /\ nsteps < MaxSteps
    /\ nsteps' = nsteps + 1
    /\ nalloc' = IF size_body = 0 THEN nalloc ELSE nalloc + 1
    /\ req' = size_body
    /\ UNCHANGED rootTag
    /\ IF size_body = 0
       THEN /\ ret' = NULL
            /\ last' = NULL
            /\ tried' = <<>>
            /\ UNCHANGED <<mem, bump_ptr, to_space_is_s0, old_bump_ptr, stack,
                           collection_in_progress, pc, young, pre>>
       ELSE LET total == align_up(size_body, DEFAULT_ALIGN)
                p == align_up(bump_ptr, DEFAULT_ALIGN)
            IN  IF NoRoom(total, EdenEnd, p)
                THEN LET r == gc_minor_collect(mem, stack, old_bump_ptr, to_space_is_s0)
                     IN  /\ collection_in_progress' = TRUE
                         /\ pre' = [mem |-> mem, stack |-> stack, flag |-> to_space_is_s0,
                                    old_bump |-> old_bump_ptr, young |-> young,
                                    bump |-> bump_ptr, n |-> pre.n + 1,
                                    left |-> {h \in r.skipped :
                                                 ~InOld(Rd(r.mem, h + OffFwd))},
                                    cb |-> NoCallback]
                         /\ mem' = r.mem
                         /\ stack' = r.stack
                         /\ old_bump_ptr' = r.old_bump
                         /\ to_space_is_s0' = r.to_space_is_s0
                         /\ bump_ptr' = r.bump_ptr
                         /\ young' = YoungAfter(r.mem, young, to_space_is_s0)
                         /\ pc' = "minor"
                         /\ tried' = <<"eden", "minor">>
                         /\ ret' = NULL
                         /\ last' = NULL
                ELSE /\ mem' = MutatorInit(InitObject(mem, p, total), p + SizeofGCInfo, nalloc + 1)
                     /\ bump_ptr' = p + total
                     /\ ret' = p + SizeofGCInfo
                     /\ last' = p + SizeofGCInfo
                     /\ tried' = <<"eden">>
                     /\ young' = young \cup {p}
                     /\ UNCHANGED <<to_space_is_s0, old_bump_ptr, stack,
                                    collection_in_progress, pc, pre>>

\* gc_alloc_nursery after the minor collection: second Eden attempt, then Old
AfterMinor ==
    /\ pc = "minor"
    /\ UNCHANGED nongc
    /\ UNCHANGED <<to_space_is_s0, stack, nalloc, nsteps, rootTag, req, pre>>
    /\ LET total == align_up(req, DEFAULT_ALIGN)
           p == align_up(bump_ptr, DEFAULT_ALIGN)
           op == align_up(old_bump_ptr, DEFAULT_ALIGN)
       IN  IF NoRoom(total, EdenEnd, p)
           THEN IF NoRoom(total, OldEnd, op)
                THEN LET r == gc_major_collect(mem, stack, old_bump_ptr)
                     IN  /\ collection_in_progress' = TRUE
                         /\ mem' = r.mem
                         /\ old_bump_ptr' = r.old_bump
                         /\ pc' = "major"
                         /\ tried' = tried \o <<"eden", "old", "major">>
                         /\ UNCHANGED <<bump_ptr, ret, last, young>>
                ELSE /\ collection_in_progress' = FALSE
                     /\ mem' = MutatorInit(InitObject(mem, op, total), op + SizeofGCInfo, nalloc)
                     /\ old_bump_ptr' = op + total
                     /\ ret' = op + SizeofGCInfo
                     /\ last' = op + SizeofGCInfo
                     /\ pc' = "idle"
                     /\ tried' = tried \o <<"eden", "old">>
                     /\ UNCHANGED <<bump_ptr, young>>
           ELSE /\ collection_in_progress' = FALSE
                /\ mem' = MutatorInit(InitObject(mem, p, total), p + SizeofGCInfo, nalloc)
                /\ bump_ptr' = p + total
                /\ ret' = p + SizeofGCInfo
                /\ last' = p + SizeofGCInfo
                /\ pc' = "idle"
                /\ tried' = tried \o <<"eden">>
                /\ young' = young \cup {p}
                /\ UNCHANGED old_bump_ptr

\* gc_alloc_nursery after the major collection: second Old attempt or NULL
AfterMajor ==
    /\ pc = "major"
    /\ UNCHANGED nongc
    /\ UNCHANGED <<to_space_is_s0, stack, nalloc, nsteps, rootTag, req, pre,
                   bump_ptr, young>>
    /\ collection_in_progress' = FALSE
    /\ pc' = "idle"
    /\ tried' = Append(tried, "old")
    /\ LET total == align_up(req, DEFAULT_ALIGN)
           op == align_up(old_bump_ptr, DEFAULT_ALIGN)
       IN  IF NoRoom(total, OldEnd, op)
           THEN /\ ret' = NULL
                /\ last' = NULL
                /\ UNCHANGED <<mem, old_bump_ptr>>
           ELSE /\ mem' = MutatorInit(InitObject(mem, op, total), op + SizeofGCInfo, nalloc)
                /\ old_bump_ptr' = op + total
                /\ ret' = op + SizeofGCInfo
                /\ last' = op + SizeofGCInfo

\* gc_alloc_old called by the mutator
AllocOld(size_body, junk) ==
    /\ pc = "idle"
    /\ UNCHANGED nongc
    /\ nsteps < MaxSteps
    /\ nsteps' = nsteps + 1
    /\ nalloc' = IF size_body = 0 THEN nalloc ELSE nalloc + 1
    /\ req' = size_body
    /\ LET Answered(r) ==
               /\ mem' = IF r.ret = NULL THEN r.mem
                          ELSE MutatorInit(r.mem, r.ret, nalloc + 1)
               /\ old_bump_ptr' = r.old_bump
               /\ ret' = r.ret
               /\ last' = r.ret
               /\ tried' = IF size_body = 0 THEN <<>>
                            ELSE IF r.major THEN <<"old", "major", "old">>
                            ELSE <<"old">>
       IN  Answered(gc_alloc_old(GcState(mem, stack, bump_ptr, old_bump_ptr,
                                          to_space_is_s0, collection_in_progress),
                                  size_body, junk))
    /\ UNCHANGED <<bump_ptr, to_space_is_s0, stack, collection_in_progress, pc,
                   rootTag, young, pre>>

\* gc_alloc_nursery whose Eden attempt fails while the old generation holds
\* objects, with a reference-extraction callback that asks for a cell on the
\* first call step 2 of the collection makes to it; up to the end of the
\* minor collection.  The collection chose its to-space before the call and
\* goes on with it afterwards.
AllocNurseryCallback(size_body, which, junk) ==
    /\ pc = "idle"
    /\ UNCHANGED nongc
    /\ nsteps < MaxSteps
    /\ size_body # 0
    /\ NoRoom(align_up(size_body, DEFAULT_ALIGN), EdenEnd, align_up(bump_ptr, DEFAULT_ALIGN))
    /\ old_bump_ptr > OldStart
    /\ nsteps' = nsteps + 1
    /\ nalloc' = nalloc + 1
    /\ req' = size_body
    /\ pc' = "minor"
    /\ tried' = <<"eden", "minor">>
    /\ ret' = NULL
    /\ last' = NULL
    /\ UNCHANGED rootTag
    /\ LET Collected(c, r) ==
               /\ mem' = r.mem
               /\ stack' = r.stack
               /\ old_bump_ptr' = r.old_bump
               /\ to_space_is_s0' = ~c.flag
               /\ bump_ptr' = r.bump_ptr
               /\ collection_in_progress' = c.in_progress
               /\ young' = (IF c.minor THEN YoungAfter(c.mem, young, to_space_is_s0)
                            ELSE {})
                           \cup YoungAfter(r.mem, young, to_space_is_s0)
               /\ pre' = [mem |-> mem, stack |-> stack, flag |-> to_space_is_s0,
                          old_bump |-> old_bump_ptr, young |-> young,
                          bump |-> bump_ptr, n |-> pre.n + 1,
                          left |-> {h \in r.skipped : ~InOld(Rd(r.mem, h + OffFwd))},
                          cb |-> [which |-> which, ret |-> c.ret, minor |-> c.minor,
                                  major |-> c.major,
                                  bumped |-> c.bump # bump_ptr \/ c.old_bump # old_bump_ptr]]
           Called(c) ==
               Collected(c, gc_minor_collect(c.mem, c.stack, c.old_bump, to_space_is_s0))
           Entered(c) ==
               IF which = "gc_alloc_old" THEN Called(gc_alloc_old(c, CellSize, junk))
               ELSE Called(gc_alloc_nursery(c, CellSize))
       IN  /\ (which = "gc_alloc_nursery") => junk = NULL
           /\ Entered(GcState(mem, stack, bump_ptr, old_bump_ptr, to_space_is_s0, TRUE))

(* ------------------------------ mutator -------------------------------- *)
Holders == {stack[i] : i \in 1..Len(stack)} \cup {last}

\* vec_push(&gc->stack, &ptr): register the pointer just obtained as a root
PushRoot ==
    /\ pc = "idle"
    /\ UNCHANGED nongc
    /\ last # NULL
    /\ nsteps < MaxSteps
    /\ nsteps' = nsteps + 1
    /\ stack' = Append(stack, last)
    /\ rootTag' = Append(rootTag, Rd(mem, last + OffTag))
    /\ UNCHANGED <<mem, bump_ptr, to_space_is_s0, old_bump_ptr,
                   collection_in_progress, pc, req, ret, last, tried,
                   nalloc, young, pre>>

\* vec_pop_discard(gc->stack)
PopRoot ==
    /\ pc = "idle"
    /\ UNCHANGED nongc
    /\ Len(stack) > 0
    /\ nsteps < MaxSteps
    /\ nsteps' = nsteps + 1
    /\ stack' = SubSeq(stack, 1, Len(stack) - 1)
    /\ rootTag' = SubSeq(rootTag, 1, Len(rootTag) - 1)
    /\ UNCHANGED <<mem, bump_ptr, to_space_is_s0, old_bump_ptr,
                   collection_in_progress, pc, req, ret, last, tried,
                   nalloc, young, pre>>

\* the mutator stores a pointer it holds into a pointer field of a cell it holds
WriteRef(o, k, t) ==
    /\ pc = "idle"
    /\ UNCHANGED nongc
    /\ nsteps < MaxSteps
    /\ o # NULL
    /\ Rd(mem, o + k) # t
    /\ mem' = WriteWord(mem, o + k, t)
    /\ nsteps' = nsteps + 1
    /\ UNCHANGED <<bump_ptr, to_space_is_s0, old_bump_ptr, stack,
                   collection_in_progress, pc, req, ret, last, tried,
                   nalloc, rootTag, young, pre>>

\* the mutator stores a non-pointer datum into the cell's fourth word
WriteMark(o) ==
    /\ pc = "idle"
    /\ UNCHANGED nongc
    /\ nsteps < MaxSteps
    /\ o # NULL
    /\ Rd(mem, o + OffMark) = 0
    /\ mem' = WriteWord(mem, o + OffMark, 1)
    /\ nsteps' = nsteps + 1
    /\ UNCHANGED <<bump_ptr, to_space_is_s0, old_bump_ptr, stack,
                   collection_in_progress, pc, req, ret, last, tried,
                   nalloc, rootTag, young, pre>>

GcNext ==
    \/ \E size_body \in AllocSizes : AllocNursery(size_body)
    \/ AfterMinor
    \/ AfterMajor
    \/ PushRoot
    \/ PopRoot
    \/ \E o \in Holders, k \in {OffCar, OffCdr}, t \in Holders \cup {NULL} : WriteRef(o, k, t)
    \/ \E o \in Holders : WriteMark(o)

\* a mutator that allocates from both generations and registers roots, for
\* MaxApiSteps operations
GcApiNext ==
    \/ \E size_body \in ApiSizes : nsteps < MaxApiSteps /\ AllocNursery(size_body)
    \/ AfterMinor
    \/ AfterMajor
    \/ nsteps < MaxApiSteps /\ PushRoot
    \/ \E size_body \in ApiSizes, junk \in Indeterminate :
           nsteps < MaxApiSteps /\ AllocOld(size_body, junk)
    \/ \E size_body \in ApiSizes, which \in {"gc_alloc_old", "gc_alloc_nursery"},
          junk \in Indeterminate :
           nsteps < MaxApiSteps /\ AllocNurseryCallback(size_body, which, junk)


(* ------------------------- the payloads returned ----------------------- *)
\* the calls a mutator makes to the two allocators, and the sizes it asks for:
\* one word, the body of a cell, a cell with room for a header, and a request
\* larger than Eden
MaxLayoutSteps == 4
LayoutSizes == {0, 1, CellBody, CellSize, BigSize}

LayoutInit == allocated = <<>>

\* the record after a call that returned r: a collection starts it afresh
Logged(log, r, size_body, region) ==
    LET kept == IF r.minor \/ r.major THEN <<>> ELSE log
    IN  IF r.ret = NULL THEN kept
        ELSE Append(kept, [ptr |-> r.ret, size |-> size_body, region |-> region])

\* a call of an allocator has returned r
LayoutReturn(r, size_body) ==
    /\ mem' = r.mem
    /\ bump_ptr' = r.bump
    /\ old_bump_ptr' = r.old_bump
    /\ to_space_is_s0' = r.flag
    /\ stack' = r.stack
    /\ ret' = r.ret
    /\ req' = size_body
    /\ allocated' = Logged(allocated, r, size_body,
                           IF r.old_bump # old_bump_ptr THEN "old" ELSE "eden")
    /\ nsteps' = nsteps + 1
    /\ UNCHANGED <<collection_in_progress, pc, last, tried, nalloc, rootTag, young, pre>>
    /\ UNCHANGED nonlayout

\* p = gc_alloc_nursery(gc, size_body)
LayoutNursery(size_body) ==
    /\ pc = "idle"
    /\ nsteps < MaxLayoutSteps
    /\ LayoutReturn(gc_alloc_nursery(GcState(mem, stack, bump_ptr, old_bump_ptr,
                                             to_space_is_s0, collection_in_progress),
                                     size_body), size_body)

\* p = gc_alloc_old(gc, size_body)
LayoutOld(size_body, junk) ==
    /\ pc = "idle"
    /\ nsteps < MaxLayoutSteps
    /\ LayoutReturn(gc_alloc_old(GcState(mem, stack, bump_ptr, old_bump_ptr,
                                         to_space_is_s0, collection_in_progress),
                                 size_body, junk), size_body)

GcLayoutNext ==
    \/ \E size_body \in LayoutSizes : LayoutNursery(size_body)
    \/ \E size_body \in LayoutSizes, junk \in Indeterminate : LayoutOld(size_body, junk)

(* --------------------------- heap observers ---------------------------- *)

\* the payloads reachable from a set of payload pointers through pointer slots
RECURSIVE ReachSet(_, _, _)
ReachSet(m, todo, seen) ==
    IF todo = {} THEN seen
    ELSE LET b == CHOOSE x \in todo : TRUE
             succ == {Rd(m, extract_refs(b)[k]) : k \in 1..Len(extract_refs(b))} \ {NULL}
         IN  ReachSet(m, (todo \cup succ) \ (seen \cup {b}), seen \cup {b})

Reach(m, seeds) == ReachSet(m, seeds \ {NULL}, {})

\* the payloads of the objects laid out in the old generation
RECURSIVE OldBodies(_, _, _)
OldBodies(m, p, end) ==
    IF p >= end \/ Rd(m, p + OffSize) <= 0 THEN {}
    ELSE {p + SizeofGCInfo} \cup OldBodies(m, p + Rd(m, p + OffSize), end)

SlotTargets(m, bodies) ==
    {Rd(m, extract_refs(b)[k]) : b \in bodies, k \in 1..2} \ {NULL}

RootSet(stk) == {stk[i] : i \in 1..Len(stk)} \ {NULL}

\* what was reachable when the last minor collection started
PreLive ==
    Reach(pre.mem, RootSet(pre.stack)
                   \cup SlotTargets(pre.mem, OldBodies(pre.mem, OldStart, pre.old_bump)))

(* ------------------------------- claims -------------------------------- *)
\* C1: GC soundness.  Right after a minor collection every registered root
\* refers to an object that carries the logical value (tag) it was registered
\* with, is either unmoved or was rewritten to the payload of the copy, and
\* does not point into Eden or into the previous from-survivor.
C1_GcSoundness ==
    pc = "minor" =>
        \A i \in 1..Len(stack) :
            stack[i] # NULL =>
                /\ ~InEden(gc_header_from_obj(stack[i]))
                /\ ~InFromSurvivor(gc_header_from_obj(stack[i]), pre.flag)
                /\ Rd(mem, stack[i] + OffTag) = rootTag[i]
                /\ \/ stack[i] = pre.stack[i]
                   \/ stack[i] = Rd(mem, gc_header_from_obj(pre.stack[i]) + OffFwd)
                                 + SizeofGCInfo

\* C2: Right after a minor collection every object reachable from the roots
\* has one location (no two reachable payloads carry the same tag) and no
\* pointer slot of a reachable object holds the address of a moved object.
C2_OneLocation ==
    pc = "minor" =>
        LET live == Reach(mem, RootSet(stack))
        IN  /\ \A b1 \in live, b2 \in live :
                   Rd(mem, b1 + OffTag) = Rd(mem, b2 + OffTag) => b1 = b2
            /\ \A b \in live :
                   \A t \in SlotTargets(mem, {b}) :
                       Rd(mem, gc_header_from_obj(t) + OffFwd) = NULL

\* C3: GC liveness.  A young object that was reachable neither from a root nor
\* from a slot of an old-generation object when the minor collection started
\* has not been copied by it (its header carries no forwarding pointer).
C3_GcLiveness ==
    pc = "minor" =>
        \A h \in pre.young :
            (h + SizeofGCInfo) \notin PreLive => Rd(mem, h + OffFwd) = NULL

\* C5: Right after a major collection the old generation holds exactly the
\* objects reachable from the roots and from the nursery-resident objects.
C5_MajorCompacts ==
    pc = "major" =>
        LET live == Reach(mem, RootSet(stack)
                               \cup {h + SizeofGCInfo : h \in young})
        IN  \A b \in OldBodies(mem, OldStart, old_bump_ptr) : b \in live

(***************************************************************************)
(* Arena (arena.c) and symbol table (symtab.c).  Sizes are in bytes.  A     *)
(* name is a sequence of bytes, a hash a pair of 16-bit halves (hi, lo).    *)
(***************************************************************************)
(* ------------------------------ bounds --------------------------------- *)
\* capacity of the global arena (evaluate_program passes 8192)
ArenaCapacity == 112
\* bucket count of the global table (evaluate_program passes 32)
GlobalBuckets == 2
MaxTabs == 3
MaxOps == 4

(* ------------------------- program constants --------------------------- *)
\* ARENA_ALIGNMENT is sizeof(void*)
ARENA_ALIGNMENT == 8
\* sizeof(Symbol): name 8, name_len 8, name_hash 4, type 4, flags 4 (+4), value 8, next 8
SizeofSymbol == 48
\* FNV_OFFSET_BASIS_32 = 2166136261 = 0x811C9DC5
FNV_OFFSET_HI == 33052
FNV_OFFSET_LO == 40389
\* FNV_PRIME_32 = 16777619 = 0x01000193
FNV_PRIME_HI == 256
FNV_PRIME_LO == 403
SYM_INTEGER == 1
SYM_STRING == 3
SYM_FLAG_CONST == 1
SYM_FLAG_MUTABLE == 2

\* inputs of the callers: names (one holds a NUL byte), values, flags
Names == {<<>>, <<0>>, <<97>>}
TypedVals == {[type |-> SYM_INTEGER, value |-> <<1>>],
              [type |-> SYM_STRING, value |-> <<120, 121>>]}
Flags == {SYM_FLAG_CONST, SYM_FLAG_MUTABLE}

IsConst(flags) == flags % 2 = 1

(* ------------------------------- arena --------------------------------- *)
\* a size_t is kept as the integer nearest to zero that is congruent to it
\* modulo 2^64, so that SIZE_MAX - 7 is -8 and sums and products wrap as in
\* the code; a > b on two size_t
SizeGreater(a, b) == IF (a < 0) = (b < 0) THEN a > b ELSE a < 0

NewBlock(capacity, offset) ==
    [capacity |-> capacity, offset |-> offset, live |-> TRUE, next |-> 0]

\* arena_alloc with the chained block sized to the request
arena_alloc_Exact(bl, a, size) ==
    LET current_arena == bl[a]
        aligned_offset == align_up(current_arena.offset, ARENA_ALIGNMENT)
    IN  IF SizeGreater(aligned_offset + size, current_arena.capacity)
        THEN LET new_capacity == IF SizeGreater(size, current_arena.capacity)
                                 THEN size ELSE current_arena.capacity
             IN  [blocks |-> Append([bl EXCEPT ![a].next = Len(bl) + 1],
                                    NewBlock(new_capacity, size)),
                  arena |-> Len(bl) + 1, blk |-> Len(bl) + 1, off |-> 0]
        ELSE [blocks |-> [bl EXCEPT ![a].offset = aligned_offset + size],
              arena |-> a, blk |-> a, off |-> aligned_offset]

\* arena_alloc(&a, size): bump in the current block, or chain a new block,
\* make it current and serve the request from its start
arena_alloc(bl, a, size) ==
    LET current_arena == bl[a]
        aligned_offset == align_up(current_arena.offset, ARENA_ALIGNMENT)
    IN  IF SizeGreater(aligned_offset + size, current_arena.capacity)
        THEN LET new_capacity == IF SizeGreater(size, current_arena.capacity)
                                 THEN size * 2 ELSE current_arena.capacity
             IN  [blocks |-> Append([bl EXCEPT ![a].next = Len(bl) + 1],
                                    NewBlock(new_capacity, size)),
                  arena |-> Len(bl) + 1, blk |-> Len(bl) + 1, off |-> 0]
        ELSE [blocks |-> [bl EXCEPT ![a].offset = aligned_offset + size],
              arena |-> a, blk |-> a, off |-> aligned_offset]

\* the bytes of memory an arena hands out: anonymous mmap pages, never reused
ArenaBytes(n) == [i \in 1..n |-> 0]

(* -------------------------------- hash --------------------------------- *)
RECURSIVE XorBits(_, _, _)
XorBits(a, b, k) ==
    IF k = 0 THEN 0
    ELSE (((a % 2) + (b % 2)) % 2) + 2 * XorBits(a \div 2, b \div 2, k - 1)

\* hash ^= byte; hash *= FNV_PRIME_32 (mod 2^32)
FnvStep(h, byte) ==
    LET lo1 == (h.lo \div 256) * 256 + XorBits(h.lo % 256, byte, 8)
        prod == lo1 * FNV_PRIME_LO
    IN  [hi |-> (h.hi * FNV_PRIME_LO + lo1 * FNV_PRIME_HI + prod \div 65536) % 65536,
         lo |-> prod % 65536]

RECURSIVE FnvFold(_, _, _, _)
FnvFold(h, str, i, len) ==
    IF i > len THEN h ELSE FnvFold(FnvStep(h, str[i]), str, i + 1, len)

symtab_hash(str, len) == FnvFold([hi |-> FNV_OFFSET_HI, lo |-> FNV_OFFSET_LO], str, 1, len)

\* hash % bucket_count
BucketIndex(h, bucket_count) ==
    ((h.hi % bucket_count) * (65536 % bucket_count) + h.lo) % bucket_count

(* ------------------------------ comparing ------------------------------ *)
\* memcmp(a, b, n) == 0
MemEq(a, b, n) == \A i \in 1..n : a[i] = b[i]

\* strncmp(a, b, n) == 0: equal up to n bytes or up to a common NUL
RECURSIVE StrnEq(_, _, _, _)
StrnEq(a, b, i, n) ==
    IF i > n THEN TRUE
    ELSE IF a[i] # b[i] THEN FALSE
    ELSE IF a[i] = 0 THEN TRUE
    ELSE StrnEq(a, b, i + 1, n)

SymMatches(sym, hash, name, name_len, cmp) ==
    /\ sym.name_hash = hash
    /\ sym.name_len = name_len
    /\ IF cmp = "strncmp" THEN StrnEq(sym.name, name, 1, name_len)
       ELSE IF cmp = "memcmp is non-zero" THEN ~MemEq(name, sym.name, sym.name_len)
       ELSE MemEq(sym.name, name, name_len)

\* position in the chain of the first matching symbol, 0 when there is none
MatchPos(sy, chain, hash, name, name_len, cmp) ==
    LET hits == {i \in 1..Len(chain) : SymMatches(sy[chain[i]], hash, name, name_len, cmp)}
    IN  IF hits = {} THEN 0 ELSE CHOOSE i \in hits : \A j \in hits : i <= j

\* the walk reads a symbol whose arena block has been released
WalkReadsFreed(sy, bl, chain, pos) ==
    \E i \in 1..(IF pos = 0 THEN Len(chain) ELSE pos) : ~bl[sy[chain[i]].blk].live

\* the scopes from t up to the global one
RECURSIVE ScopeChain(_, _)
ScopeChain(tb, t) == IF t = 0 THEN <<>> ELSE <<t>> \o ScopeChain(tb, tb[t].parent)

\* symtab_new
symtab_new(initial_capacity, parent, depth, arena, born) ==
    LET cap == IF initial_capacity = 0 THEN 16 ELSE initial_capacity
    IN  [live |-> TRUE, bucket_count |-> cap, symbol_count |-> 0,
         parent |-> parent, depth |-> depth, arena |-> arena,
         buckets |-> [i \in 0..(cap - 1) |-> <<>>], born |-> born]

NoBinding == [value |-> <<>>, at |-> 0]

NoOp == [kind |-> "none", t |-> 0, name |-> <<>>, type |-> 0, value |-> <<>>,
         flags |-> 0, rc |-> 0, ret |-> 0]

SymInit ==
    /\ blocks = <<NewBlock(ArenaCapacity, 0)>>
    /\ tabs = <<symtab_new(GlobalBuckets, 0, 0, 1, 0)>>
    /\ syms = <<>>
    /\ scopes = <<1>>
    /\ rc = 0
    /\ found = 0
    /\ lastop = NoOp
    /\ nops = 0
    /\ defval = [t \in 1..MaxTabs |-> [n \in Names |-> NoBinding]]
    /\ crashed = FALSE
    /\ nameOut = <<>>

(* ----------------------------- operations ------------------------------ *)
OpRec(kind, t, name, type, value, flags, code, r) ==
    [kind |-> kind, t |-> t, name |-> name, type |-> type, value |-> value,
     flags |-> flags, rc |-> code, ret |-> r]

\* bookkeeping of a call that returned
Returned(op) ==
    /\ lastop' = op
    /\ rc' = op.rc
    /\ nops' = nops + 1
    /\ crashed' = FALSE

\* a call that read or wrote released memory and took the process down
Crash ==
    /\ crashed' = TRUE
    /\ lastop' = [NoOp EXCEPT !.kind = "crash"]
    /\ nops' = nops + 1
    /\ UNCHANGED <<tabs, syms, blocks, scopes, rc, found, defval, nameOut>>

\* the first scope on the chain whose bucket chain holds a match (memcmp)
RECURSIVE FirstBinder(_, _, _, _, _, _)
FirstBinder(tb, sy, chainOfScopes, i, name, hash) ==
    IF i > Len(chainOfScopes) THEN [scope |-> 0, pos |-> 0, visited |-> i - 1]
    ELSE LET current_scope == chainOfScopes[i]
             index == BucketIndex(hash, tb[current_scope].bucket_count)
             pos == MatchPos(sy, tb[current_scope].buckets[index], hash, name,
                             Len(name), "memcmp")
         IN  IF pos # 0 THEN [scope |-> current_scope, pos |-> pos, visited |-> i]
             ELSE FirstBinder(tb, sy, chainOfScopes, i + 1, name, hash)

\* the chain walk of symtab_set / symtab_lookup reads released memory
ChainWalkReadsFreed(tb, sy, bl, chainOfScopes, name, hash, b) ==
    \E i \in 1..b.visited :
        LET sc == chainOfScopes[i]
            index == BucketIndex(hash, tb[sc].bucket_count)
        IN  WalkReadsFreed(sy, bl, tb[sc].buckets[index],
                           IF sc = b.scope THEN b.pos ELSE 0)

\* the nearest scope from t that the caller bound the name in
RECURSIVE AbstractBinder(_, _, _, _)
AbstractBinder(dv, chainOfScopes, i, name) ==
    IF i > Len(chainOfScopes) THEN 0
    ELSE IF dv[chainOfScopes[i]][name] # NoBinding THEN chainOfScopes[i]
    ELSE AbstractBinder(dv, chainOfScopes, i + 1, name)

symtab_define(t, name, tv, flags, ub) ==
    /\ ~crashed
    /\ nops < MaxOps
    /\ UNCHANGED nonsym
    /\ LET table == tabs[t]
           name_len == Len(name)
           hash == symtab_hash(name, name_len)
           index == BucketIndex(hash, table.bucket_count)
           chain == table.buckets[index]
           pos == MatchPos(syms, chain, hash, name, name_len, "strncmp")
           a1 == arena_alloc(blocks, table.arena, SizeofSymbol)
           a2 == arena_alloc(a1.blocks, a1.arena, name_len + 1)
           \* memcpy((void*)name, new_sym->name, name_len): the fresh arena
           \* bytes overwrite the caller's buffer; the stored name keeps them
           new_sym == [name |-> ArenaBytes(name_len + 1), name_len |-> name_len,
                       name_hash |-> hash, type |-> tv.type, flags |-> flags,
                       value |-> tv.value, blk |-> a1.blk, nameblk |-> a2.blk,
                       gname |-> name]
           freed == \/ WalkReadsFreed(syms, blocks, chain, pos)
                    \/ (pos = 0 /\ ~blocks[table.arena].live)
       IN  /\ (ub = "crash") => (name_len # 0 /\ freed)
           /\ IF name_len = 0
              THEN /\ Returned(OpRec("define", t, name, tv.type, tv.value, flags, -2, 0))
                   /\ UNCHANGED <<tabs, syms, blocks, scopes, found, defval, nameOut>>
              ELSE IF ub = "crash" THEN Crash
              ELSE IF pos # 0
              THEN IF IsConst(syms[chain[pos]].flags)
                   THEN /\ Returned(OpRec("define", t, name, tv.type, tv.value, flags, -3, 0))
                        /\ UNCHANGED <<tabs, syms, blocks, scopes, found, defval, nameOut>>
                   ELSE /\ syms' = [syms EXCEPT ![chain[pos]].type = tv.type,
                                                ![chain[pos]].value = tv.value,
                                                ![chain[pos]].flags = flags]
                        /\ defval' = [defval EXCEPT ![t][name] = [value |-> tv.value, at |-> nops + 1]]
                        /\ Returned(OpRec("define", t, name, tv.type, tv.value, flags, 0, 0))
                        /\ UNCHANGED <<tabs, blocks, scopes, found, nameOut>>
              ELSE /\ syms' = Append(syms, new_sym)
                   /\ blocks' = a2.blocks
                   /\ tabs' = [tabs EXCEPT ![t].arena = a2.arena,
                                           ![t].buckets[index] = <<Len(syms) + 1>> \o chain,
                                           ![t].symbol_count = table.symbol_count + 1]
                   /\ nameOut' = ArenaBytes(name_len)
                   /\ defval' = [defval EXCEPT ![t][name] = [value |-> tv.value, at |-> nops + 1]]
                   /\ Returned(OpRec("define", t, name, tv.type, tv.value, flags, 0, 0))
                   /\ UNCHANGED <<scopes, found>>

symtab_set(t, name, tv, ub) ==
    /\ ~crashed
    /\ nops < MaxOps
    /\ UNCHANGED nonsym
    /\ LET name_len == Len(name)
           hash == symtab_hash(name, name_len)
           sc == ScopeChain(tabs, t)
           b == FirstBinder(tabs, syms, sc, 1, name, hash)
           index == BucketIndex(hash, tabs[b.scope].bucket_count)
           sym == tabs[b.scope].buckets[index][b.pos]
           a1 == arena_alloc(blocks, tabs[b.scope].arena, name_len + 1)
           isStr == tv.type = SYM_STRING
           \* memcpy(new_str, value.str_val, name_len)
           stored == IF isStr THEN SubSeq(tv.value, 1, name_len) ELSE tv.value
           ab == AbstractBinder(defval, sc, 1, name)
           freed == \/ ChainWalkReadsFreed(tabs, syms, blocks, sc, name, hash, b)
                    \/ (b.scope # 0 /\ isStr /\ ~blocks[tabs[b.scope].arena].live)
       IN  /\ (ub = "crash") => (name_len # 0 /\ freed)
           /\ IF name_len = 0
              THEN /\ Returned(OpRec("set", t, name, tv.type, tv.value, 0, -1, 0))
                   /\ UNCHANGED <<tabs, syms, blocks, scopes, found, defval, nameOut>>
              ELSE IF ub = "crash" THEN Crash
              ELSE IF b.scope = 0
              THEN /\ Returned(OpRec("set", t, name, tv.type, tv.value, 0, -2, 0))
                   /\ UNCHANGED <<tabs, syms, blocks, scopes, found, defval, nameOut>>
              ELSE IF IsConst(syms[sym].flags)
              THEN /\ Returned(OpRec("set", t, name, tv.type, tv.value, 0, -3, 0))
                   /\ UNCHANGED <<tabs, syms, blocks, scopes, found, defval, nameOut>>
              ELSE /\ syms' = [syms EXCEPT ![sym].type = tv.type, ![sym].value = stored]
                   /\ blocks' = IF isStr THEN a1.blocks ELSE blocks
                   /\ tabs' = IF isStr THEN [tabs EXCEPT ![b.scope].arena = a1.arena]
                              ELSE tabs
                   /\ defval' = IF ab = 0 THEN defval
                                ELSE [defval EXCEPT ![ab][name].value = stored]
                   /\ Returned(OpRec("set", t, name, tv.type, tv.value, 0, 0, 0))
                   /\ UNCHANGED <<scopes, found, nameOut>>

symtab_lookup(t, name, ub) ==
    /\ ~crashed
    /\ nops < MaxOps
    /\ UNCHANGED nonsym
    /\ LET name_len == Len(name)
           hash == symtab_hash(name, name_len)
           sc == ScopeChain(tabs, t)
           b == FirstBinder(tabs, syms, sc, 1, name, hash)
           index == BucketIndex(hash, tabs[b.scope].bucket_count)
           freed == ChainWalkReadsFreed(tabs, syms, blocks, sc, name, hash, b)
       IN  /\ (ub = "crash") => (name_len # 0 /\ freed)
           /\ IF ub = "crash" THEN Crash
              ELSE /\ found' = IF name_len = 0 \/ b.scope = 0 THEN 0
                               ELSE tabs[b.scope].buckets[index][b.pos]
                   /\ Returned(OpRec("lookup", t, name, 0, <<>>, 0, 0, 0))
                   /\ UNCHANGED <<tabs, syms, blocks, scopes, defval, nameOut>>

symtab_lookup_local(t, name, ub) ==
    /\ ~crashed
    /\ nops < MaxOps
    /\ UNCHANGED nonsym
    /\ LET name_len == Len(name)
           hash == symtab_hash(name, name_len)
           index == BucketIndex(hash, tabs[t].bucket_count)
           chain == tabs[t].buckets[index]
           pos == MatchPos(syms, chain, hash, name, name_len, "memcmp")
           freed == WalkReadsFreed(syms, blocks, chain, pos)
       IN  /\ (ub = "crash") => (name_len # 0 /\ freed)
           /\ IF ub = "crash" THEN Crash
              ELSE /\ found' = IF name_len = 0 \/ pos = 0 THEN 0 ELSE chain[pos]
                   /\ Returned(OpRec("lookup_local", t, name, 0, <<>>, 0, 0, 0))
                   /\ UNCHANGED <<tabs, syms, blocks, scopes, defval, nameOut>>

\* symtab_push_scope(parent): the child is handed the parent's arena pointer
symtab_push_scope ==
    /\ ~crashed
    /\ nops < MaxOps
    /\ Len(tabs) < MaxTabs
    /\ UNCHANGED nonsym
    /\ LET parent == scopes[Len(scopes)]
           new_st == symtab_new(tabs[parent].bucket_count, parent,
                                tabs[parent].depth + 1, tabs[parent].arena, nops + 1)
       IN  /\ tabs' = Append(tabs, new_st)
           /\ scopes' = Append(scopes, Len(tabs) + 1)
           /\ Returned(OpRec("push", parent, <<>>, 0, <<>>, 0, 0, Len(tabs) + 1))
           /\ UNCHANGED <<syms, blocks, found, defval, nameOut>>

\* arena_free: munmap(arena->start, arena->capacity); free(arena)
arena_free(bl, a) == [bl EXCEPT ![a].live = FALSE]

\* symtab_pop_scope(table): arena_free(table->arena); free(table); return parent
symtab_pop_scope(ub) ==
    /\ ~crashed
    /\ nops < MaxOps
    /\ Len(scopes) > 1
    /\ UNCHANGED nonsym
    /\ LET table == scopes[Len(scopes)]
           parent == tabs[table].parent
           freed == ~blocks[tabs[table].arena].live
       IN  /\ (ub = "crash") => freed
           /\ IF ub = "crash" THEN Crash
              ELSE /\ blocks' = arena_free(blocks, tabs[table].arena)
                   /\ tabs' = [tabs EXCEPT ![table].live = FALSE]
                   /\ scopes' = SubSeq(scopes, 1, Len(scopes) - 1)
                   /\ Returned(OpRec("pop", table, <<>>, 0, <<>>, 0, 0, parent))
                   /\ UNCHANGED <<syms, found, defval, nameOut>>

\* the chain left in place
Unlink_Keep(chain, pos) == chain
\* prev->next = current->next, or table->buckets[index] = current->next
Unlink(chain, pos) == SubSeq(chain, 1, pos - 1) \o SubSeq(chain, pos + 1, Len(chain))

\* symtab_remove(table, name, name_len): unlink the match from the bucket
\* chain of this scope, then free(current->name); free(current) on memory
\* that came from the arena, not from malloc
symtab_remove(t, name, ub) ==
    /\ ~crashed
    /\ nops < MaxOps
    /\ UNCHANGED nonsym
    /\ LET table == tabs[t]
           name_len == Len(name)
           hash == symtab_hash(name, name_len)
           index == BucketIndex(hash, table.bucket_count)
           chain == table.buckets[index]
           pos == MatchPos(syms, chain, hash, name, name_len, "memcmp")
           freed == WalkReadsFreed(syms, blocks, chain, pos)
           frees == pos # 0 /\ ~IsConst(syms[chain[pos]].flags)
       IN  /\ (ub = "crash") => (name_len # 0 /\ (freed \/ frees))
           /\ IF name_len = 0
              THEN /\ Returned(OpRec("remove", t, name, 0, <<>>, 0, -1, 0))
                   /\ UNCHANGED <<tabs, syms, blocks, scopes, found, defval, nameOut>>
              ELSE IF ub = "crash" THEN Crash
              ELSE IF pos = 0
              THEN /\ Returned(OpRec("remove", t, name, 0, <<>>, 0, -2, 0))
                   /\ UNCHANGED <<tabs, syms, blocks, scopes, found, defval, nameOut>>
              ELSE IF IsConst(syms[chain[pos]].flags)
              THEN /\ Returned(OpRec("remove", t, name, 0, <<>>, 0, -3, 0))
                   /\ UNCHANGED <<tabs, syms, blocks, scopes, found, defval, nameOut>>
              ELSE /\ tabs' = [tabs EXCEPT
                                 ![t].buckets[index] = Unlink(chain, pos),
                                 ![t].symbol_count = table.symbol_count - 1]
                   /\ defval' = [defval EXCEPT ![t][name] = NoBinding]
                   /\ Returned(OpRec("remove", t, name, 0, <<>>, 0, 0, 0))
                   /\ UNCHANGED <<syms, blocks, scopes, found, nameOut>>

\* symtab_exists(table, name, name_len): the bucket chain of this scope only,
\* a symbol counting as a match when memcmp(name, sym->name, len) is non-zero
symtab_exists(t, name, ub) ==
    /\ ~crashed
    /\ nops < MaxOps
    /\ UNCHANGED nonsym
    /\ LET table == tabs[t]
           name_len == Len(name)
           hash == symtab_hash(name, name_len)
           i == BucketIndex(hash, table.bucket_count)
           pos == MatchPos(syms, table.buckets[i], hash, name, name_len,
                           "memcmp is non-zero")
           freed == WalkReadsFreed(syms, blocks, table.buckets[i], pos)
       IN  /\ (ub = "crash") => freed
           /\ IF ub = "crash" THEN Crash
              ELSE /\ Returned(OpRec("exists", t, name, 0, <<>>, 0, 0,
                                     IF pos # 0 THEN 1 ELSE 0))
                   /\ UNCHANGED <<tabs, syms, blocks, scopes, found, defval, nameOut>>

Outcomes == {"crash", "stale"}
OpenScopes == {scopes[i] : i \in 1..Len(scopes)}

SymNext ==
    \/ \E t \in OpenScopes, name \in Names, tv \in TypedVals, flags \in Flags, ub \in Outcomes :
           symtab_define(t, name, tv, flags, ub)
    \/ \E t \in OpenScopes, name \in Names, tv \in TypedVals, ub \in Outcomes :
           symtab_set(t, name, tv, ub)
    \/ \E t \in OpenScopes, name \in Names, ub \in Outcomes : symtab_lookup(t, name, ub)
    \/ \E t \in OpenScopes, name \in Names, ub \in Outcomes : symtab_lookup_local(t, name, ub)
    \/ symtab_push_scope
    \/ \E ub \in Outcomes : symtab_pop_scope(ub)
    \/ \E t \in OpenScopes, name \in Names, ub \in Outcomes : symtab_remove(t, name, ub)
    \/ \E t \in OpenScopes, name \in Names, ub \in Outcomes : symtab_exists(t, name, ub)

\* symtab_size(table): the symbols on the bucket chains of the scope
RECURSIVE CountChains(_, _)
CountChains(table, i) ==
    IF i >= table.bucket_count THEN 0
    ELSE Len(table.buckets[i]) + CountChains(table, i + 1)

symtab_size(table) == CountChains(table, 0)

\* a caller that defines and removes names, in the global scope and in the
\* scopes it pushes; its values and the number of its calls
CountVals == {[type |-> SYM_INTEGER, value |-> <<1>>]}
MaxCountOps == 4

SymCountNext ==
    \/ \E t \in OpenScopes, name \in Names, tv \in CountVals, flags \in Flags, ub \in Outcomes :
           nops < MaxCountOps /\ symtab_define(t, name, tv, flags, ub)
    \/ \E t \in OpenScopes, name \in Names, ub \in Outcomes :
           nops < MaxCountOps /\ symtab_remove(t, name, ub)
    \/ nops < MaxCountOps /\ symtab_push_scope

(* ============================ arena alone ============================== *)
\* number of arena calls of the owner
MaxArenaOps == 4
\* capacities handed to arena_create, sizes handed to arena_alloc
ArenaCapacities == {16, 32}
ArenaSizes == {0, 8, 12, 24, 40}

NoArenaOp == [kind |-> "none", size |-> 0, before |-> 0, ret |-> 0, off |-> 0,
              grew |-> FALSE]

ArenaOp(kind, size, before, r, off, grew) ==
    [kind |-> kind, size |-> size, before |-> before, ret |-> r, off |-> off,
     grew |-> grew]

ArenaInit ==
    /\ ablocks = <<>>
    /\ ahandle = 0
    /\ alast = NoArenaOp
    /\ agrown = {}
    /\ anops = 0

\* arena_create(capacity): malloc and mmap may fail, the result is then NULL
ArenaCreate(capacity, ok) ==
    /\ anops < MaxArenaOps
    /\ ahandle = 0
    /\ anops' = anops + 1
    /\ UNCHANGED nonarena
    /\ IF ok
       THEN /\ ablocks' = <<NewBlock(capacity, 0)>>
            /\ ahandle' = 1
            /\ alast' = ArenaOp("create", capacity, 0, 1, 0, FALSE)
            /\ UNCHANGED agrown
       ELSE /\ alast' = ArenaOp("create", capacity, 0, 0, 0, FALSE)
            /\ UNCHANGED <<ablocks, ahandle, agrown>>

\* arena_alloc(&handle, size) by the owner of a mapped arena; ok is whether
\* arena_create succeeds when a block has to be chained
ArenaAlloc(size, ok) ==
    /\ anops < MaxArenaOps
    /\ ahandle # 0
    /\ ablocks[ahandle].live
    /\ anops' = anops + 1
    /\ UNCHANGED nonarena
    /\ LET current_arena == ablocks[ahandle]
           fits == align_up(current_arena.offset, ARENA_ALIGNMENT) + size
                       <= current_arena.capacity
           Served(a) ==
               /\ ablocks' = a.blocks
               /\ ahandle' = a.arena
               /\ alast' = ArenaOp("alloc", size, ahandle, a.blk, a.off, ~fits)
               /\ agrown' = IF fits THEN agrown
                            ELSE agrown \cup {[size |-> size,
                                               prev |-> current_arena.capacity,
                                               cap |-> a.blocks[a.blk].capacity]}
       IN  IF size = 0 \/ (~fits /\ ~ok)
           THEN /\ alast' = ArenaOp("alloc", size, ahandle, 0, 0, FALSE)
                /\ UNCHANGED <<ablocks, ahandle, agrown>>
           ELSE Served(arena_alloc(ablocks, ahandle, size))

\* arena_reset(handle)
ArenaReset ==
    /\ anops < MaxArenaOps
    /\ ahandle # 0
    /\ ablocks[ahandle].live
    /\ anops' = anops + 1
    /\ ablocks' = [ablocks EXCEPT ![ahandle].offset = 0]
    /\ alast' = ArenaOp("reset", 0, ahandle, 0, 0, FALSE)
    /\ UNCHANGED <<ahandle, agrown>>
    /\ UNCHANGED nonarena

\* arena_free(handle): the owner passes the pointer arena_alloc left in its
\* handle; the pointer itself stays as it was
ArenaFree ==
    /\ anops < MaxArenaOps
    /\ ahandle # 0
    /\ ablocks[ahandle].live
    /\ anops' = anops + 1
    /\ ablocks' = arena_free(ablocks, ahandle)
    /\ alast' = ArenaOp("free", 0, ahandle, 0, 0, FALSE)
    /\ UNCHANGED <<ahandle, agrown>>
    /\ UNCHANGED nonarena

ArenaNext ==
    \/ \E capacity \in ArenaCapacities, ok \in BOOLEAN : ArenaCreate(capacity, ok)
    \/ \E size \in ArenaSizes, ok \in BOOLEAN : ArenaAlloc(size, ok)
    \/ ArenaReset
    \/ ArenaFree

(* ------------------------ the ranges handed out ------------------------ *)
\* number of arena calls of the owner, and the sizes it asks for: the last is
\* SIZE_MAX - 7
MaxRangeOps == 5
RangeSizes == {0, 8, 12, 24, -8}

RangeInit == areturned = <<>>

\* a = arena_create(capacity)
RangeCreate(capacity, ok) ==
    /\ anops < MaxRangeOps
    /\ ahandle = 0
    /\ anops' = anops + 1
    /\ IF ok
       THEN /\ ablocks' = <<NewBlock(capacity, 0)>>
            /\ ahandle' = 1
            /\ alast' = ArenaOp("create", capacity, 0, 1, 0, FALSE)
       ELSE /\ alast' = ArenaOp("create", capacity, 0, 0, 0, FALSE)
            /\ UNCHANGED <<ablocks, ahandle>>
    /\ UNCHANGED <<agrown, areturned>>
    /\ UNCHANGED nonrange

\* p = arena_alloc(&handle, size); a block to chain is not mapped when mmap
\* fails (ok) or is asked for no byte or for more than the address space holds
RangeAlloc(size, ok) ==
    /\ anops < MaxRangeOps
    /\ ahandle # 0
    /\ ablocks[ahandle].live
    /\ anops' = anops + 1
    /\ LET Served(a) ==
               IF size = 0 \/ (a.blk # ahandle /\ (~ok \/ a.blocks[a.blk].capacity <= 0))
               THEN /\ alast' = ArenaOp("alloc", size, ahandle, 0, 0, FALSE)
                    /\ UNCHANGED <<ablocks, ahandle, areturned>>
               ELSE /\ ablocks' = a.blocks
                    /\ ahandle' = a.arena
                    /\ alast' = ArenaOp("alloc", size, ahandle, a.blk, a.off,
                                        a.blk # ahandle)
                    /\ areturned' = Append(areturned,
                                           [blk |-> a.blk, off |-> a.off, size |-> size])
       IN  Served(arena_alloc(ablocks, ahandle, size))
    /\ UNCHANGED agrown
    /\ UNCHANGED nonrange

\* arena_reset(handle)
RangeReset ==
    /\ anops < MaxRangeOps
    /\ ahandle # 0
    /\ ablocks[ahandle].live
    /\ anops' = anops + 1
    /\ ablocks' = [ablocks EXCEPT ![ahandle].offset = 0]
    /\ alast' = ArenaOp("reset", 0, ahandle, 0, 0, FALSE)
    /\ areturned' = <<>>
    /\ UNCHANGED <<ahandle, agrown>>
    /\ UNCHANGED nonrange

ArenaRangeNext ==
    \/ \E capacity \in ArenaCapacities, ok \in BOOLEAN : RangeCreate(capacity, ok)
    \/ \E size \in RangeSizes, ok \in BOOLEAN : RangeAlloc(size, ok)
    \/ RangeReset

(* ============================ vector (vec.c) =========================== *)
\* number of vector calls of the owner
MaxVecOps == 4
\* GROWTH_FACTOR
GROWTH_FACTOR == 2
\* initial capacities handed to vec_new, element values pushed and searched
VecCapacities == {0, 1, 2}
VecValues == {1, 2}
\* the element slots a run can touch, counted from the end of the header;
\* slots at or beyond maxcap lie outside the allocation
VecSlots == 0..MaxVecOps

\* vec_new(elem_size, initial_capacity); bump is bump_ptr as a slot index
vec_new(initial_capacity) ==
    [elem_num |-> 0, maxcap |-> initial_capacity, bump |-> 0,
     data |-> [i \in VecSlots |-> 0]]

\* vec_push(&v, value): [rc, v]; ok is whether realloc succeeds
vec_push(v, value, ok) ==
    LET grow == v.elem_num >= v.maxcap
        Stored(final_vec) ==
            [rc |-> 0,
             v |-> [final_vec EXCEPT !.data[final_vec.bump] = value,
                                     !.bump = final_vec.bump + 1,
                                     !.elem_num = final_vec.elem_num + 1]]
        Grown(newcap) ==
            Stored([v EXCEPT !.maxcap = IF newcap < v.elem_num + 1
                                        THEN v.elem_num + 1 ELSE newcap,
                             !.bump = v.elem_num])
    IN  IF grow THEN IF ok THEN Grown(v.maxcap * GROWTH_FACTOR)
                     ELSE [rc |-> -2, v |-> v]
        ELSE Stored(v)

\* vec_pop_discard(v)
vec_pop_discard(v) ==
    IF v.elem_num = 0 THEN [rc |-> -1, v |-> v]
    ELSE [rc |-> 0, v |-> [v EXCEPT !.elem_num = v.elem_num - 1,
                                    !.data[v.bump - 1] = 0,
                                    !.bump = v.bump - 1]]

\* vec_pop_get(v, &out): [rc, out, v]; out is <<>> when nothing was copied
vec_pop_get(v) ==
    IF v.elem_num = 0 THEN [rc |-> -1, out |-> <<>>, v |-> v]
    ELSE [rc |-> 0, out |-> <<v.data[v.bump - 1]>>,
          v |-> [v EXCEPT !.elem_num = v.elem_num - 1,
                          !.data[v.bump - 1] = 0,
                          !.bump = v.bump - 1]]

\* vec_peek(v): the element the returned pointer points to, <<>> for NULL
vec_peek(v) == IF v.elem_num = 0 THEN <<>> ELSE <<v.data[v.bump - 1]>>

\* memmove(current, current + elem_size, (n - i - 1) * elem_size)
MoveLeft(data, i, n) ==
    [k \in DOMAIN data |-> IF k >= i /\ k < n - 1 THEN data[k + 1] ELSE data[k]]

\* vec_del(v, value): the loop from slot i on
RECURSIVE DelLoop(_, _, _)
DelLoop(v, value, i) ==
    IF i >= v.elem_num THEN [rc |-> -3, v |-> v]
    ELSE IF v.data[i] = value
    THEN [rc |-> 0, v |-> [v EXCEPT !.data = MoveLeft(v.data, i, v.elem_num),
                                    !.elem_num = v.elem_num - 1]]
    ELSE DelLoop(v, value, i + 1)

vec_del(v, value) ==
    IF v.elem_num <= 0 THEN [rc |-> -2, v |-> v] ELSE DelLoop(v, value, 0)

\* vec_rem(v, value): the loop from slot i on, count matches removed so far
RECURSIVE RemLoop(_, _, _, _)
RemLoop(v, value, i, count) ==
    IF i >= v.elem_num THEN [rc |-> count, v |-> v]
    ELSE IF v.data[i] = value
    THEN RemLoop([v EXCEPT !.data = MoveLeft(v.data, i, v.elem_num),
                           !.elem_num = v.elem_num - 1], value, i, count + 1)
    ELSE RemLoop(v, value, i + 1, count)

vec_rem(v, value) == RemLoop(v, value, 0, 0)

\* vec_clear(v)
vec_clear(v) == [rc |-> 0, v |-> [v EXCEPT !.elem_num = 0, !.bump = 0]]

vec_len(v) == v.elem_num

\* vec_at(v, idx): the element the returned pointer points to, <<>> for NULL
vec_at(v, idx) == IF idx >= v.elem_num THEN <<>> ELSE <<v.data[idx]>>

\* the same operations on a sequence
RECURSIVE SeqDel(_, _)
SeqDel(q, value) ==
    IF q = <<>> THEN <<>>
    ELSE IF Head(q) = value THEN Tail(q)
    ELSE <<Head(q)>> \o SeqDel(Tail(q), value)

RECURSIVE SeqRem(_, _)
SeqRem(q, value) ==
    IF q = <<>> THEN <<>>
    ELSE IF Head(q) = value THEN SeqRem(Tail(q), value)
    ELSE <<Head(q)>> \o SeqRem(Tail(q), value)

SeqLast(q) == IF q = <<>> THEN <<>> ELSE <<q[Len(q)]>>

VecOp(kind, code, out, want_rc, want_out) ==
    [kind |-> kind, rc |-> code, out |-> out, want_rc |-> want_rc,
     want_out |-> want_out]

\* no vector yet
VecInit ==
    /\ vec = vec_new(0)
    /\ vabs = <<>>
    /\ vlast = VecOp("none", 0, <<>>, 0, <<>>)
    /\ vnops = 0

\* vec_new(elem_size, initial_capacity) by the owner
VecNew(initial_capacity) ==
    /\ vlast.kind = "none"
    /\ vec' = vec_new(initial_capacity)
    /\ vlast' = VecOp("new", 0, <<>>, 0, <<>>)
    /\ UNCHANGED <<vabs, vnops>>
    /\ UNCHANGED nonvec

\* a call by the owner on its vector; the process is still running
VecCall ==
    /\ vnops < MaxVecOps
    /\ vlast.kind \notin {"none", "crash"}
    /\ vnops' = vnops + 1
    /\ UNCHANGED nonvec

\* vec_push: without growth the element goes where bump_ptr points, which
\* is outside the allocation when bump_ptr has reached the capacity
VecPush(value, ok, ub) ==
    /\ VecCall
    /\ LET beyond == vec.elem_num < vec.maxcap /\ vec.bump >= vec.maxcap
           Pushed(r) ==
               /\ vec' = r.v
               /\ vabs' = IF r.rc = 0 THEN Append(vabs, value) ELSE vabs
               /\ vlast' = VecOp("push", r.rc, <<>>, r.rc, <<>>)
       IN  /\ (ub = "crash") => beyond
           /\ IF ub = "crash"
              THEN /\ vlast' = VecOp("crash", 0, <<>>, 0, <<>>)
                   /\ UNCHANGED <<vec, vabs>>
              ELSE Pushed(vec_push(vec, value, ok))

VecPopDiscard ==
    /\ VecCall
    /\ LET Popped(r) ==
               /\ vec' = r.v
               /\ vabs' = IF vabs = <<>> THEN vabs ELSE SubSeq(vabs, 1, Len(vabs) - 1)
               /\ vlast' = VecOp("pop_discard", r.rc, <<>>,
                                 IF vabs = <<>> THEN -1 ELSE 0, <<>>)
       IN  Popped(vec_pop_discard(vec))

VecPopGet ==
    /\ VecCall
    /\ LET Popped(r) ==
               /\ vec' = r.v
               /\ vabs' = IF vabs = <<>> THEN vabs ELSE SubSeq(vabs, 1, Len(vabs) - 1)
               /\ vlast' = VecOp("pop_get", r.rc, r.out,
                                 IF vabs = <<>> THEN -1 ELSE 0, SeqLast(vabs))
       IN  Popped(vec_pop_get(vec))

VecPeek ==
    /\ VecCall
    /\ vlast' = VecOp("peek", 0, vec_peek(vec), 0, SeqLast(vabs))
    /\ UNCHANGED <<vec, vabs>>

VecDel(value) ==
    /\ VecCall
    /\ LET Deleted(r) ==
               /\ vec' = r.v
               /\ vabs' = SeqDel(vabs, value)
               /\ vlast' = VecOp("del", r.rc, <<>>, r.rc, <<>>)
       IN  Deleted(vec_del(vec, value))

VecRem(value) ==
    /\ VecCall
    /\ LET Removed(r) ==
               /\ vec' = r.v
               /\ vabs' = SeqRem(vabs, value)
               /\ vlast' = VecOp("rem", r.rc, <<>>, Len(vabs) - Len(SeqRem(vabs, value)), <<>>)
       IN  Removed(vec_rem(vec, value))

VecClear ==
    /\ VecCall
    /\ vec' = vec_clear(vec).v
    /\ vabs' = <<>>
    /\ vlast' = VecOp("clear", 0, <<>>, 0, <<>>)

VecNext ==
    \/ \E initial_capacity \in VecCapacities : VecNew(initial_capacity)
    \/ \E value \in VecValues, ok \in BOOLEAN, ub \in Outcomes : VecPush(value, ok, ub)
    \/ VecPopDiscard
    \/ VecPopGet
    \/ VecPeek
    \/ \E value \in VecValues : VecDel(value)
    \/ \E value \in VecValues : VecRem(value)
    \/ VecClear

(* ================================ lexer ================================ *)
\* length of the source text, in bytes
MaxSrcLen == 4

\* bytes
ChNewline == 10
ChLParen == 40
ChRParen == 41
ChSemi == 59
ChQuote == 39
ChComma == 44
ChBackquote == 96
ChDQuote == 34
ChBackslash == 92
ChMinus == 45
ChPlus == 43
ChDot == 46
ChHash == 35
ChColon == 58
ChLowerE == 101
ChUpperE == 69

\* <ctype.h> in the C locale
isspace(c) == c = 32 \/ (c >= 9 /\ c <= 13)
isdigit(c) == c >= 48 /\ c <= 57
isalpha(c) == (c >= 65 /\ c <= 90) \/ (c >= 97 /\ c <= 122)
isalnum(c) == isalpha(c) \/ isdigit(c)

\* ! @ # $ % ^ & * - + = < > / ? : . _ \ ~
IDENTIFIER_CHAR_TABLE(c) ==
    c \in {33, 64, 35, 36, 37, 94, 38, 42, 45, 43, 61, 60, 62, 47, 63, 58, 46, 95, 92, 126}

\* strchr("!@$%^&*-+=<>/?:._~", c) != NULL: true of the terminating NUL too
UninternedChar(c) ==
    c \in {33, 64, 36, 37, 94, 38, 42, 45, 43, 61, 60, 62, 47, 63, 58, 46, 95, 126, 0}

Token(type, start, len) == [type |-> type, value |-> start, value_len |-> len]

\* first position >= p that is past the end or whose byte fails the test
RECURSIVE SkipDigits(_, _)
SkipDigits(src, p) ==
    IF p <= Len(src) /\ isdigit(src[p]) THEN SkipDigits(src, p + 1) ELSE p

RECURSIVE SkipIdent(_, _)
SkipIdent(src, p) ==
    IF p <= Len(src) /\ (isalnum(src[p]) \/ IDENTIFIER_CHAR_TABLE(src[p]))
    THEN SkipIdent(src, p + 1) ELSE p

RECURSIVE SkipUninterned(_, _)
SkipUninterned(src, p) ==
    IF p <= Len(src) /\ (isalnum(src[p]) \/ UninternedChar(src[p]))
    THEN SkipUninterned(src, p + 1) ELSE p

SkipComment_OneByte(src, p) == p + 1
\* while (++ptr < end && *ptr != '\n');
RECURSIVE SkipComment(_, _)
SkipComment(src, p) ==
    IF p + 1 <= Len(src) /\ src[p + 1] # ChNewline THEN SkipComment(src, p + 1) ELSE p + 1

\* the body of a string: stop at the closing quote or at the end
RECURSIVE SkipString(_, _)
SkipString(src, p) ==
    IF p <= Len(src) /\ src[p] # ChDQuote
    THEN SkipString(src, IF src[p] = ChBackslash /\ p + 1 <= Len(src) THEN p + 2 ELSE p + 1)
    ELSE p

\* the numeric scanner from start: [ptr, is_float, rewind]
ScanNumber(src, start) ==
    LET p0 == IF src[start] \in {ChMinus, ChPlus} THEN start + 1 ELSE start
        p1 == SkipDigits(src, p0)
        dot == p1 <= Len(src) /\ src[p1] = ChDot
        p2 == IF dot THEN SkipDigits(src, p1 + 1) ELSE p1
        ex == p2 <= Len(src) /\ src[p2] \in {ChLowerE, ChUpperE}
        p3 == IF ex /\ p2 + 1 <= Len(src) /\ src[p2 + 1] \in {ChPlus, ChMinus}
              THEN p2 + 2 ELSE p2 + 1
        good == p3 <= Len(src) /\ isdigit(src[p3])
    IN  IF ~ex THEN [ptr |-> p2, is_float |-> dot, rewind |-> FALSE]
        ELSE IF good THEN [ptr |-> SkipDigits(src, p3), is_float |-> TRUE, rewind |-> FALSE]
        ELSE [ptr |-> start, is_float |-> TRUE, rewind |-> TRUE]

\* the byte at ptr; one past the end of the buffer it is whatever lies there
ByteAt(src, p, beyond) == IF p <= Len(src) THEN src[p] ELSE beyond

\* lex_tokens: positions are 1-based, end is Len(src) + 1
RECURSIVE LexLoop(_, _, _, _)
\* the identifier: label and the error fallback
LexIdentifier(src, ptr, toks, beyond) ==
    LET c == ByteAt(src, ptr, beyond)
    IN  IF isalpha(c) \/ IDENTIFIER_CHAR_TABLE(c)
        THEN LexLoop(src, SkipIdent(src, ptr),
                     Append(toks, Token("TOKEN_IDENTIFIER", ptr, SkipIdent(src, ptr) - ptr)),
                     beyond)
        ELSE LexLoop(src, ptr + 1, Append(toks, Token("TOKEN_ERROR", ptr, 1)), beyond)

LexLoop(src, ptr, toks, beyond) ==
    IF ptr > Len(src) THEN toks
    ELSE LET c == src[ptr]
             single == [x \in {ChLParen, ChRParen, ChQuote, ChComma, ChBackquote} |->
                          CASE x = ChLParen -> "TOKEN_LPAREN"
                            [] x = ChRParen -> "TOKEN_RPAREN"
                            [] x = ChQuote -> "TOKEN_QUOTE"
                            [] x = ChComma -> "TOKEN_COMMA"
                            [] OTHER -> "TOKEN_BACKQUOTE"]
         IN  IF isspace(c) THEN LexLoop(src, ptr + 1, toks, beyond)
             ELSE IF c \in {ChLParen, ChRParen} THEN
                 LexLoop(src, ptr + 1, Append(toks, Token(single[c], ptr, 1)), beyond)
             ELSE IF c = ChSemi THEN LexLoop(src, SkipComment(src, ptr), toks, beyond)
             ELSE IF c \in {ChQuote, ChComma, ChBackquote} THEN
                 LexLoop(src, ptr + 1, Append(toks, Token(single[c], ptr, 1)), beyond)
             ELSE IF c = ChDQuote THEN
                 LET q == SkipString(src, ptr + 1)
                 IN  IF q <= Len(src) /\ src[q] = ChDQuote
                     THEN LexLoop(src, q + 1,
                                  Append(toks, Token("TOKEN_STRING", ptr, q - ptr + 1)), beyond)
                     ELSE LexLoop(src, q, Append(toks, Token("TOKEN_ERROR", ptr, q - ptr)),
                                  beyond)
             ELSE IF \/ isdigit(c)
                     \/ /\ c \in {ChMinus, ChPlus}
                        /\ ptr + 1 <= Len(src)
                        /\ (isdigit(src[ptr + 1]) \/ src[ptr + 1] = ChDot)
             THEN LET n == ScanNumber(src, ptr)
                  IN  IF n.rewind THEN LexIdentifier(src, ptr, toks, beyond)
                      ELSE LexLoop(src, n.ptr,
                                   Append(toks, Token(IF n.is_float THEN "TOKEN_FLOAT"
                                                      ELSE "TOKEN_INTEGER", ptr, n.ptr - ptr)),
                                   beyond)
             ELSE IF c = ChHash /\ ptr + 1 <= Len(src) /\ src[ptr + 1] = ChColon
             THEN LET b == ByteAt(src, ptr + 2, beyond)
                  IN  IF ptr + 2 <= Len(src) /\ (isalpha(b) \/ IDENTIFIER_CHAR_TABLE(b))
                      THEN LexLoop(src, SkipUninterned(src, ptr + 2),
                                   Append(toks, Token("TOKEN_UNINTERNED_SYMBOL", ptr,
                                                      SkipUninterned(src, ptr + 2) - ptr)),
                                   beyond)
                      \* ptr += 2 is kept when the body is missing
                      ELSE LexIdentifier(src, ptr + 2, toks, beyond)
             ELSE LexIdentifier(src, ptr, toks, beyond)

lex_tokens(src, beyond) == LexLoop(src, 1, <<>>, beyond)

\* the pieces a well-formed text is written from: delimiters, quote marks,
\* atoms (single bytes that combine into numbers and symbols, two strings,
\* an uninterned symbol), white space and a line comment
OpenPiece == <<ChLParen>>
ClosePiece == <<ChRParen>>
QuotePieces == {<<ChQuote>>, <<ChBackquote>>, <<ChComma>>}
AtomPieces == {<<97>>, <<49>>, <<ChMinus>>, <<ChDot>>, <<ChLowerE>>,
               <<ChDQuote, 32, ChDQuote>>, <<ChDQuote, ChBackslash, ChDQuote, ChDQuote>>,
               <<ChHash, ChColon, 97>>}
BlankPieces == {<<32>>, <<ChNewline>>, <<ChSemi, ChLParen, ChNewline>>}
Pieces == {OpenPiece, ClosePiece} \cup QuotePieces \cup AtomPieces \cup BlankPieces

\* bytes that may lie behind the end of the malloc'ed file buffer
BeyondBytes == {0, 97}

LexInit ==
    /\ source = <<>>
    /\ tokens = <<>>
    /\ shape = [depth |-> 0, pending |-> FALSE, stripped |-> <<>>]
    /\ lexed = FALSE

\* the author of the text appends one piece
Write(piece) ==
    /\ ~lexed
    /\ Len(source) + Len(piece) <= MaxSrcLen
    /\ piece = ClosePiece => (shape.depth > 0 /\ ~shape.pending)
    /\ source' = source \o piece
    /\ shape' = [depth |-> CASE piece = OpenPiece -> shape.depth + 1
                             [] piece = ClosePiece -> shape.depth - 1
                             [] OTHER -> shape.depth,
                 pending |-> IF piece \in QuotePieces THEN TRUE
                             ELSE IF piece \in BlankPieces THEN shape.pending
                             ELSE FALSE,
                 stripped |-> IF piece \in BlankPieces THEN shape.stripped
                              ELSE shape.stripped \o piece]
    /\ UNCHANGED <<tokens, lexed>>
    /\ UNCHANGED nonlex

\* lex_tokens(source, source_len) on a complete program text
Lex(beyond) ==
    /\ ~lexed
    /\ shape.depth = 0
    /\ ~shape.pending
    /\ tokens' = lex_tokens(source, beyond)
    /\ lexed' = TRUE
    /\ UNCHANGED <<source, shape>>
    /\ UNCHANGED nonlex

LexNext ==
    \/ \E piece \in Pieces : Write(piece)
    \/ \E beyond \in BeyondBytes : Lex(beyond)

\* the bytes an arbitrary file is made of here: # : ( a 1 e [ space ; newline
\* and a byte above 127
RawBytes == {ChHash, ChColon, ChLParen, 97, 49, ChLowerE, 91, 32, ChSemi, ChNewline, 233}

\* one more byte of a file that need not be a program
TypeByte(byte) ==
    /\ ~lexed
    /\ Len(source) < MaxSrcLen
    /\ source' = Append(source, byte)
    /\ UNCHANGED <<tokens, shape, lexed>>
    /\ UNCHANGED nonlex

\* lex_tokens on whatever the file holds
LexRawNext ==
    \/ \E byte \in RawBytes : TypeByte(byte)
    \/ \E beyond \in BeyondBytes : Lex(beyond)

\* the byte spans of the tokens, concatenated in order
RECURSIVE SpanConcat(_, _, _)
SpanConcat(src, toks, i) ==
    IF i > Len(toks) THEN <<>>
    ELSE SubSeq(src, toks[i].value, toks[i].value + toks[i].value_len - 1)
         \o SpanConcat(src, toks, i + 1)

(* ------------------------------- parser -------------------------------- *)
\* longest token vector handed to the parser
MaxTokens == 4

MAX_CONSECUTIVE_QUOTES == 8

\* a parse node: its type, the text of a symbol or string atom, and in car
\* what the node points to (the elements of a list, the expression a quote
\* node wraps; empty for a node made with no payload)
Cons(type, text, car) == [type |-> type, text |-> text, car |-> car]

make_atom(data, type) == Cons(type, <<>>, data)

make_text_atom(s, type) == Cons(type, s, <<>>)

make_shallow_atom(type) == Cons(type, <<>>, <<>>)

cons_clone_shallow(node) == Cons(node.type, node.text, node.car)

wrap_list(body) == Cons("NODE_LIST", <<>>, body)

\* cur->type >= NODE_QUOTE && cur->type <= NODE_UNQUOTE
IsQuoteFamily(type) == type \in {"NODE_QUOTE", "NODE_QUASIQUOTE", "NODE_UNQUOTE"}

\* the null result and a result with a value
ParseNull == [ok |-> FALSE, expr |-> <<>>, cursor |-> 0]
ParseOk(expr, cursor) == [ok |-> TRUE, expr |-> <<expr>>, cursor |-> cursor]

\* while (quote_stack_top > 0) expr = make_atom(&temp, ..., quote_stack[--top])
RECURSIVE WrapQuotes(_, _)
WrapQuotes(expr, quote_stack) ==
    IF quote_stack = <<>> THEN expr
    ELSE WrapQuotes(make_atom(<<expr>>, quote_stack[Len(quote_stack)]),
                    SubSeq(quote_stack, 1, Len(quote_stack) - 1))

\* a quote node met by parse_list: remembered while the stack has room
PushQuote(quote_stack, type) ==
    IF Len(quote_stack) < MAX_CONSECUTIVE_QUOTES THEN Append(quote_stack, type)
    ELSE quote_stack

\* parse_list: chain is the flat chain of nodes, cursor the position of an
\* opening separator (Len(chain) + 1 stands for the null end of the chain)
RECURSIVE parse_list(_, _), ParseListLoop(_, _, _, _)
ParseListLoop(chain, cur, body, quote_stack) ==
    IF cur > Len(chain) THEN ParseNull
    ELSE IF IsQuoteFamily(chain[cur].type)
    THEN ParseListLoop(chain, cur + 1, body, PushQuote(quote_stack, chain[cur].type))
    ELSE IF chain[cur].type = "NODE_OPENING_SEPARATOR"
    THEN LET r == parse_list(chain, cur)
         IN  IF ~r.ok THEN ParseNull
             ELSE ParseListLoop(chain, r.cursor,
                                Append(body, WrapQuotes(r.expr[1], quote_stack)), <<>>)
    ELSE IF chain[cur].type = "NODE_CLOSING_SEPARATOR"
    THEN ParseOk(wrap_list(body), cur + 1)
    ELSE ParseListLoop(chain, cur + 1,
                       Append(body, WrapQuotes(cons_clone_shallow(chain[cur]), quote_stack)),
                       <<>>)

parse_list(chain, cursor) ==
    IF cursor > Len(chain) \/ chain[cursor].type # "NODE_OPENING_SEPARATOR" THEN ParseNull
    ELSE ParseListLoop(chain, cursor + 1, <<>>, <<>>)

\* decimal digit strings, compared as numbers (LLONG_MAX does not fit a
\* 32-bit model integer)
RECURSIVE StripZeros(_)
StripZeros(d) ==
    IF d # <<>> /\ d[1] = 48 THEN StripZeros(Tail(d)) ELSE d

RECURSIVE LexLE(_, _)
LexLE(x, y) ==
    IF x = <<>> THEN TRUE
    ELSE IF x[1] # y[1] THEN x[1] < y[1]
    ELSE LexLE(Tail(x), Tail(y))

DigitsLE(a, b) ==
    LET x == StripZeros(a)
        y == StripZeros(b)
    IN  Len(x) < Len(y) \/ (Len(x) = Len(y) /\ LexLE(x, y))

\* "9223372036854775807" and the magnitude of LLONG_MIN
LLONG_MAX_DIGITS == <<57, 50, 50, 51, 51, 55, 50, 48, 51, 54, 56, 53, 52, 55, 55, 53, 56, 48, 55>>
LLONG_MIN_DIGITS == <<57, 50, 50, 51, 51, 55, 50, 48, 51, 54, 56, 53, 52, 55, 55, 53, 56, 48, 56>>

\* the bytes copied into buf[cap + 1]: len = value_len < cap ? value_len : cap
CopyToBuf(text, cap) == SubSeq(text, 1, IF Len(text) < cap THEN Len(text) ELSE cap)

RECURSIVE SkipSpaces(_, _)
SkipSpaces(buf, p) ==
    IF p <= Len(buf) /\ isspace(buf[p]) THEN SkipSpaces(buf, p + 1) ELSE p

\* strtoll(buf, &endptr, 10): white space, an optional sign, decimal digits.
\* ok is the negation of (errno == ERANGE || endptr == buf || *endptr != '\0');
\* the value is kept as a sign and a digit string without leading zeros
strtoll(buf) ==
    LET s == SkipSpaces(buf, 1)
        neg == s <= Len(buf) /\ buf[s] = ChMinus
        d == IF s <= Len(buf) /\ buf[s] \in {ChMinus, ChPlus} THEN s + 1 ELSE s
        e == SkipDigits(buf, d)
        digits == SubSeq(buf, d, e - 1)
        erange == ~DigitsLE(digits, IF neg THEN LLONG_MIN_DIGITS ELSE LLONG_MAX_DIGITS)
    IN  [ok |-> e > d /\ e > Len(buf) /\ ~erange,
         neg |-> neg /\ StripZeros(digits) # <<>>,
         digits |-> StripZeros(digits)]

\* LDBL_MAX_10_EXP of the 80-bit long double, as digits: "4932"
LDBL_MAX_10_EXP_DIGITS == <<52, 57, 51, 50>>

\* strtold(buf, &endptr) on a decimal literal: an optional sign, digits with
\* an optional point, an optional exponent. ok is the negation of
\* (errno == ERANGE || endptr == buf || *endptr != '\0' || !isfinite(val)),
\* the range being decided by the exponent of the literal
strtold(buf) ==
    LET s == SkipSpaces(buf, 1)
        d == IF s <= Len(buf) /\ buf[s] \in {ChMinus, ChPlus} THEN s + 1 ELSE s
        i == SkipDigits(buf, d)
        f == IF i <= Len(buf) /\ buf[i] = ChDot THEN SkipDigits(buf, i + 1) ELSE i
        hasDigits == (i > d) \/ (f > i + 1)
        x == IF f <= Len(buf) /\ buf[f] \in {ChLowerE, ChUpperE}
             THEN IF f + 1 <= Len(buf) /\ buf[f + 1] \in {ChMinus, ChPlus} THEN f + 2
                  ELSE f + 1
             ELSE f
        e == IF x > f /\ SkipDigits(buf, x) > x THEN SkipDigits(buf, x) ELSE f
        expo == IF e > f THEN SubSeq(buf, x, e - 1) ELSE <<>>
    IN  [ok |-> hasDigits /\ e > Len(buf) /\ DigitsLE(expo, LDBL_MAX_10_EXP_DIGITS)]

\* a token as the parser reads it: its type and the bytes value points to
PToken(type, text) == [type |-> type, text |-> text]

\* the node parse_sexpr makes of one token (its switch); ok is FALSE where
\* the switch returns NULL
NodeOfToken(tok) ==
    CASE tok.type = "TOKEN_LPAREN" ->
            [ok |-> TRUE, node |-> make_shallow_atom("NODE_OPENING_SEPARATOR")]
      [] tok.type = "TOKEN_RPAREN" ->
            [ok |-> TRUE, node |-> make_shallow_atom("NODE_CLOSING_SEPARATOR")]
      [] tok.type = "TOKEN_INTEGER" ->
            LET r == strtoll(CopyToBuf(tok.text, 31))
            IN  [ok |-> TRUE,
                 node |-> IF r.ok
                          THEN make_text_atom((IF r.neg THEN <<ChMinus>> ELSE <<>>) \o r.digits,
                                              "NODE_ATOM_INT")
                          ELSE make_text_atom(tok.text, "NODE_ATOM_SYM")]
      [] tok.type = "TOKEN_FLOAT" ->
            [ok |-> TRUE,
             node |-> IF strtold(CopyToBuf(tok.text, 63)).ok
                      THEN make_text_atom(tok.text, "NODE_ATOM_FLOAT")
                      ELSE make_text_atom(tok.text, "NODE_ATOM_SYM")]
      [] tok.type = "TOKEN_STRING" ->
            LET len == Len(tok.text)
                quoted == len >= 2 /\ tok.text[1] = ChDQuote /\ tok.text[len] = ChDQuote
            IN  [ok |-> TRUE,
                 node |-> make_text_atom(IF quoted THEN SubSeq(tok.text, 2, len - 1)
                                         ELSE tok.text, "NODE_ATOM_STR")]
      [] tok.type = "TOKEN_UNINTERNED_SYMBOL" ->
            [ok |-> TRUE, node |-> make_text_atom(tok.text, "NODE_ATOM_UNINTERNED")]
      [] tok.type = "TOKEN_QUOTE" ->
            [ok |-> TRUE, node |-> make_shallow_atom("NODE_QUOTE")]
      [] tok.type = "TOKEN_BACKQUOTE" ->
            [ok |-> TRUE, node |-> make_shallow_atom("NODE_QUASIQUOTE")]
      [] tok.type = "TOKEN_COMMA" ->
            [ok |-> TRUE, node |-> make_shallow_atom("NODE_UNQUOTE")]
      [] tok.type = "TOKEN_IDENTIFIER" ->
            [ok |-> TRUE, node |-> make_text_atom(tok.text, "NODE_ATOM_SYM")]
      [] OTHER ->
            [ok |-> FALSE, node |-> make_shallow_atom("NODE_NIL")]

\* the first loop of parse_sexpr: the flat chain of nodes, TOKEN_IGNORE
\* skipped; ok is FALSE when a token makes the function return NULL
RECURSIVE BuildChain(_, _, _)
BuildChain(toks, i, chain) ==
    IF i > Len(toks) THEN [ok |-> TRUE, chain |-> chain]
    ELSE IF toks[i].type = "TOKEN_IGNORE" THEN BuildChain(toks, i + 1, chain)
    ELSE LET n == NodeOfToken(toks[i])
         IN  IF ~n.ok THEN [ok |-> FALSE, chain |-> <<>>]
             ELSE BuildChain(toks, i + 1, Append(chain, n.node))

\* a program (ConsList) and the null result
NullProgram == [ok |-> FALSE, items |-> <<>>]
Program(items) == [ok |-> TRUE, items |-> items]

\* the fold without the test for a closing separator at top level
RECURSIVE FoldTopLevel_SkipClosing(_, _, _)
FoldTopLevel_SkipClosing(chain, cursor, result) ==
    IF cursor > Len(chain) THEN Program(result)
    ELSE IF chain[cursor].type = "NODE_OPENING_SEPARATOR"
    THEN LET r == parse_list(chain, cursor)
         IN  IF ~r.ok THEN NullProgram
             ELSE FoldTopLevel_SkipClosing(chain, r.cursor, Append(result, r.expr[1]))
    ELSE FoldTopLevel_SkipClosing(chain, cursor + 1,
                                  Append(result, cons_clone_shallow(chain[cursor])))

\* the second loop of parse_sexpr: folds the chain into top-level expressions
RECURSIVE FoldTopLevel(_, _, _)
FoldTopLevel(chain, cursor, result) ==
    IF cursor > Len(chain) THEN Program(result)
    ELSE IF chain[cursor].type = "NODE_OPENING_SEPARATOR"
    THEN LET r == parse_list(chain, cursor)
         IN  IF ~r.ok THEN NullProgram
             ELSE FoldTopLevel(chain, r.cursor, Append(result, r.expr[1]))
    ELSE IF chain[cursor].type = "NODE_CLOSING_SEPARATOR" THEN NullProgram
    ELSE FoldTopLevel(chain, cursor + 1, Append(result, cons_clone_shallow(chain[cursor])))

parse_sexpr(toks) ==
    IF Len(toks) = 0 THEN NullProgram
    ELSE LET c == BuildChain(toks, 1, <<>>)
         IN  IF ~c.ok THEN NullProgram
             ELSE IF c.chain = <<>> THEN NullProgram
             ELSE FoldTopLevel(c.chain, 1, <<>>)

parse_program(toks) ==
    IF Len(toks) = 0 THEN Program(<<>>) ELSE parse_sexpr(toks)

\* the tokens a vector handed to the parser is made of
ParseTokens ==
    { PToken("TOKEN_LPAREN", <<ChLParen>>), PToken("TOKEN_RPAREN", <<ChRParen>>),
      PToken("TOKEN_QUOTE", <<ChQuote>>), PToken("TOKEN_BACKQUOTE", <<ChBackquote>>),
      PToken("TOKEN_COMMA", <<ChComma>>), PToken("TOKEN_IDENTIFIER", <<97>>),
      PToken("TOKEN_INTEGER", <<49>>), PToken("TOKEN_FLOAT", <<49, ChDot>>),
      PToken("TOKEN_STRING", <<ChDQuote, ChDQuote>>),
      PToken("TOKEN_UNINTERNED_SYMBOL", <<ChHash, ChColon, 97>>),
      PToken("TOKEN_ERROR", <<64>>), PToken("TOKEN_IGNORE", <<>>) }

ParseInit ==
    /\ ptokens = <<>>
    /\ program = NullProgram
    /\ parsed = FALSE

\* vec_push of one more token onto the vector
PushToken(tok) ==
    /\ ~parsed
    /\ Len(ptokens) < MaxTokens
    /\ ptokens' = Append(ptokens, tok)
    /\ UNCHANGED <<program, parsed>>
    /\ UNCHANGED nonparse

\* parse_program(tokens, arena)
Parse ==
    /\ ~parsed
    /\ program' = parse_program(ptokens)
    /\ parsed' = TRUE
    /\ UNCHANGED ptokens
    /\ UNCHANGED nonparse

ParseNext ==
    \/ \E tok \in ParseTokens : PushToken(tok)
    \/ Parse

\* a list that opens with a run of quote marks: ( then ' and , marks, then an
\* identifier and the closing parenthesis
MaxQuoteRun == MAX_CONSECUTIVE_QUOTES + 2
QuoteRunTokens ==
    { PToken("TOKEN_RPAREN", <<ChRParen>>), PToken("TOKEN_QUOTE", <<ChQuote>>),
      PToken("TOKEN_COMMA", <<ChComma>>), PToken("TOKEN_IDENTIFIER", <<97>>) }

\* vec_push of the next token of such a list
PushQuoted(tok) ==
    /\ ~parsed
    /\ Len(ptokens) < MaxQuoteRun + 3
    /\ IF ptokens = <<>> THEN tok = PToken("TOKEN_LPAREN", <<ChLParen>>)
       ELSE /\ tok \in QuoteRunTokens
            /\ ptokens[Len(ptokens)].type # "TOKEN_RPAREN"
            /\ ptokens[Len(ptokens)].type = "TOKEN_IDENTIFIER" => tok.type = "TOKEN_RPAREN"
            /\ tok.type \in {"TOKEN_QUOTE", "TOKEN_COMMA"} => Len(ptokens) <= MaxQuoteRun
    /\ ptokens' = Append(ptokens, tok)
    /\ UNCHANGED <<program, parsed>>
    /\ UNCHANGED nonparse

ParseQuoteNext ==
    \/ \E tok \in QuoteRunTokens \cup {PToken("TOKEN_LPAREN", <<ChLParen>>)} : PushQuoted(tok)
    \/ Parse

\* INTEGER tokens as the lexer makes them of a long literal: an optional
\* sign, a run of zeros, then the digits
MaxIntTokens == 2
ZeroRuns == {0, 1, 30, 31}
IntSigns == {<<>>, <<ChMinus>>, <<ChPlus>>}
\* "7", LLONG_MAX, LLONG_MAX + 1 and LLONG_MAX + 2
IntTails == {<<55>>, LLONG_MAX_DIGITS, LLONG_MIN_DIGITS,
             [LLONG_MIN_DIGITS EXCEPT ![19] = 57]}
IntTexts == {sign \o [i \in 1..zeros |-> 48] \o tail :
                sign \in IntSigns, zeros \in ZeroRuns, tail \in IntTails}

\* vec_push of an INTEGER token
PushInteger(text) ==
    /\ ~parsed
    /\ Len(ptokens) < MaxIntTokens
    /\ ptokens' = Append(ptokens, PToken("TOKEN_INTEGER", text))
    /\ UNCHANGED <<program, parsed>>
    /\ UNCHANGED nonparse

ParseIntNext ==
    \/ \E text \in IntTexts : PushInteger(text)
    \/ Parse

(* ============================ built-in names =========================== *)
\* asso_values[] of the generated hash function, indices 0..256
asso_values ==
    << 33, 33, 33, 33, 33, 33, 33, 33, 33, 33, 33, 33, 33, 33, 33, 33,
       33, 33, 33, 33, 33, 33, 33, 33, 33, 33, 33, 33, 33, 33, 33, 33,
       33, 33, 33, 33, 33, 33, 33, 33, 33, 33, 23, 30, 33, 25, 33, 20,
       33, 33, 33, 33, 33, 33, 33, 33, 33, 33, 33, 33, 10, 15,  0, 33,
       33, 33, 33, 33, 33, 33, 33, 33, 33, 33, 33, 33, 33, 33, 33, 33,
       33, 33, 33, 33, 33, 33, 33, 33, 33, 33, 33, 33, 33, 33, 33, 33,
       33, 10,  5,  5, 20,  0, 20, 33, 33, 33,  5, 33,  0, 10,  0, 33,
        5, 15,  0,  5, 33, 10,  0, 15, 33,  0,  5, 33, 33, 33, 33, 33,
       33, 33, 33, 33, 33, 33, 33, 33, 33, 33, 33, 33, 33, 33, 33, 33,
       33, 33, 33, 33, 33, 33, 33, 33, 33, 33, 33, 33, 33, 33, 33, 33,
       33, 33, 33, 33, 33, 33, 33, 33, 33, 33, 33, 33, 33, 33, 33, 33,
       33, 33, 33, 33, 33, 33, 33, 33, 33, 33, 33, 33, 33, 33, 33, 33,
       33, 33, 33, 33, 33, 33, 33, 33, 33, 33, 33, 33, 33, 33, 33, 33,
       33, 33, 33, 33, 33, 33, 33, 33, 33, 33, 33, 33, 33, 33, 33, 33,
       33, 33, 33, 33, 33, 33, 33, 33, 33, 33, 33, 33, 33, 33, 33, 33,
       33, 33, 33, 33, 33, 33, 33, 33, 33, 33, 33, 33, 33, 33, 33, 33,
       33 >>

MIN_WORD_LENGTH == 1
MAX_WORD_LENGTH == 10
MAX_HASH_VALUE == 32

\* the byte of a C string at index i (from 0): 0 at its terminator
CharAt(str, i) == IF i < Len(str) THEN str[i + 1] ELSE 0

\* hash without the second byte of the key
hash_str_FirstByte(str, len) == len + asso_values[CharAt(str, 0) + 1]
\* hash(str, len): the length, plus the second byte when there is one (looked
\* up one place further), plus the first byte
hash_str(str, len) ==
    (IF len = 1 THEN len ELSE len + asso_values[(CharAt(str, 1) + 1) + 1])
        + asso_values[CharAt(str, 0) + 1]

\* enum BuiltinType, in the order of its values 0..28
BuiltinType ==
    << "BUILTIN_ADD", "BUILTIN_SUB", "BUILTIN_MUL",
       "BUILTIN_DIV", "BUILTIN_MOD", "BUILTIN_NUM_EQ",
       "BUILTIN_LESS_THAN", "BUILTIN_GREATER_THAN", "BUILTIN_LESS_EQ",
       "BUILTIN_GREATER_EQ", "BUILTIN_CONS", "BUILTIN_CAR",
       "BUILTIN_CDR", "BUILTIN_LIST", "BUILTIN_IS_ATOM",
       "BUILTIN_IS_PAIR", "BUILTIN_IS_LIST", "BUILTIN_IS_NULL",
       "BUILTIN_IS_NUMBER", "BUILTIN_IS_STRING", "BUILTIN_IS_SYMBOL",
       "BUILTIN_IS_PROCEDURE", "BUILTIN_EQ", "BUILTIN_EQUAL",
       "BUILTIN_DISPLAY", "BUILTIN_NEWLINE", "BUILTIN_APPLY",
       "BUILTIN_EVAL", "BUILTIN_EXIT" >>

\* the value of an enumerator
EnumValue(type) == (CHOOSE i \in 1..Len(BuiltinType) : BuiltinType[i] = type) - 1

BuiltinName(name, type) == [name |-> name, type |-> type]

\* wordlist[], indices 0..MAX_HASH_VALUE; an entry {""} has the type of value 0
wordlist ==
    <<
       BuiltinName(<<>>, BuiltinType[1]),
       BuiltinName(<<62>>, "BUILTIN_GREATER_THAN"),   \* >
       BuiltinName(<<62, 61>>, "BUILTIN_GREATER_EQ"),   \* >=
       BuiltinName(<<101, 113, 63>>, "BUILTIN_EQ"),   \* eq?
       BuiltinName(<<101, 120, 105, 116>>, "BUILTIN_EXIT"),   \* exit
       BuiltinName(<<110, 117, 108, 108, 63>>, "BUILTIN_IS_NULL"),   \* null?
       BuiltinName(<<101, 113, 117, 97, 108, 63>>, "BUILTIN_EQUAL"),   \* equal?
       BuiltinName(<<110, 117, 109, 98, 101, 114, 63>>, "BUILTIN_IS_NUMBER"),   \* number?
       BuiltinName(<<99, 100, 114>>, "BUILTIN_CDR"),   \* cdr
       BuiltinName(<<108, 105, 115, 116>>, "BUILTIN_LIST"),   \* list
       BuiltinName(<<108, 105, 115, 116, 63>>, "BUILTIN_IS_LIST"),   \* list?
       BuiltinName(<<60>>, "BUILTIN_LESS_THAN"),   \* <
       BuiltinName(<<60, 61>>, "BUILTIN_LESS_EQ"),   \* <=
       BuiltinName(<<99, 97, 114>>, "BUILTIN_CAR"),   \* car
       BuiltinName(<<99, 111, 110, 115>>, "BUILTIN_CONS"),   \* cons
       BuiltinName(<<112, 97, 105, 114, 63>>, "BUILTIN_IS_PAIR"),   \* pair?
       BuiltinName(<<61>>, "BUILTIN_NUM_EQ"),   \* =
       BuiltinName(<<115, 121, 109, 98, 111, 108, 63>>, "BUILTIN_IS_SYMBOL"),   \* symbol?
       BuiltinName(<<109, 111, 100>>, "BUILTIN_MOD"),   \* mod
       BuiltinName(<<101, 118, 97, 108>>, "BUILTIN_EVAL"),   \* eval
       BuiltinName(<<112, 114, 111, 99, 101, 100, 117, 114, 101, 63>>, "BUILTIN_IS_PROCEDURE"),   \* procedure?
       BuiltinName(<<47>>, "BUILTIN_DIV"),   \* /
       BuiltinName(<<115, 116, 114, 105, 110, 103, 63>>, "BUILTIN_IS_STRING"),   \* string?
       BuiltinName(<<>>, BuiltinType[1]),
       BuiltinName(<<42>>, "BUILTIN_MUL"),   \* *
       BuiltinName(<<97, 116, 111, 109, 63>>, "BUILTIN_IS_ATOM"),   \* atom?
       BuiltinName(<<45>>, "BUILTIN_SUB"),   \* -
       BuiltinName(<<110, 101, 119, 108, 105, 110, 101>>, "BUILTIN_NEWLINE"),   \* newline
       BuiltinName(<<>>, BuiltinType[1]),
       BuiltinName(<<>>, BuiltinType[1]),
       BuiltinName(<<97, 112, 112, 108, 121>>, "BUILTIN_APPLY"),   \* apply
       BuiltinName(<<43>>, "BUILTIN_ADD"),   \* +
       BuiltinName(<<100, 105, 115, 112, 108, 97, 121>>, "BUILTIN_DISPLAY")   \* display
    >>

\* the null pointer find_builtin returns, and a pointer to wordlist[key]
NoBuiltin == [found |-> FALSE, key |-> 0]
EntryAt(key) == [found |-> TRUE, key |-> key]

\* *str == *s && !strcmp(str + 1, s + 1) on C strings
SameString(str, s) ==
    /\ CharAt(str, 0) = CharAt(s, 0)
    /\ Len(str) = Len(s)
    /\ \A i \in 1..(Len(s) - 1) : CharAt(str, i) = CharAt(s, i)

find_builtin(str, len) ==
    IF len <= MAX_WORD_LENGTH /\ len >= MIN_WORD_LENGTH
    THEN LET Probe(key) ==
                 IF key <= MAX_HASH_VALUE /\ SameString(str, wordlist[key + 1].name)
                 THEN EntryAt(key)
                 ELSE NoBuiltin
         IN  Probe(hash_str(str, len))
    ELSE NoBuiltin

\* builtin_dispatch_table[]: its designated initialisers
builtin_dispatch_table ==
    { <<"BUILTIN_ADD", "builtin_add">>,
      <<"BUILTIN_SUB", "builtin_sub">>,
      <<"BUILTIN_MUL", "builtin_mul">>,
      <<"BUILTIN_DIV", "builtin_div">>,
      <<"BUILTIN_MOD", "builtin_mod">>,
      <<"BUILTIN_NUM_EQ", "builtin_num_eq">>,
      <<"BUILTIN_LESS_THAN", "builtin_less_than">>,
      <<"BUILTIN_GREATER_THAN", "builtin_greater_than">>,
      <<"BUILTIN_LESS_EQ", "builtin_less_eq">>,
      <<"BUILTIN_GREATER_EQ", "builtin_greater_eq">>,
      <<"BUILTIN_CONS", "builtin_cons">>,
      <<"BUILTIN_CAR", "builtin_car">>,
      <<"BUILTIN_CDR", "builtin_cdr">>,
      <<"BUILTIN_LIST", "builtin_list">>,
      <<"BUILTIN_IS_ATOM", "builtin_is_atom">>,
      <<"BUILTIN_IS_PAIR", "builtin_is_pair">>,
      <<"BUILTIN_IS_LIST", "builtin_is_list">>,
      <<"BUILTIN_IS_NULL", "builtin_is_null">>,
      <<"BUILTIN_IS_NUMBER", "builtin_is_number">>,
      <<"BUILTIN_IS_STRING", "builtin_is_string">>,
      <<"BUILTIN_IS_SYMBOL", "builtin_is_symbol">>,
      <<"BUILTIN_IS_PROCEDURE", "builtin_is_procedure">>,
      <<"BUILTIN_EQ", "builtin_eq">>,
      <<"BUILTIN_EQUAL", "builtin_equal">>,
      <<"BUILTIN_DISPLAY", "builtin_display">>,
      <<"BUILTIN_NEWLINE", "builtin_newline">>,
      <<"BUILTIN_APPLY", "builtin_apply">>,
      <<"BUILTIN_EVAL", "builtin_eval">>,
      <<"BUILTIN_EXIT", "builtin_exit">> }

\* the entry of the dispatch table at an index: the function, or the null
\* pointer the initialiser leaves in a gap
DispatchAt(idx) ==
    IF \E e \in builtin_dispatch_table : EnumValue(e[1]) = idx
    THEN (CHOOSE e \in builtin_dispatch_table : EnumValue(e[1]) = idx)[2]
    ELSE "NULL"

\* the size of the table: one more than its largest designated index
DispatchLen ==
    1 + (CHOOSE n \in 0..Len(BuiltinType) :
            /\ \E e \in builtin_dispatch_table : EnumValue(e[1]) = n
            /\ \A e \in builtin_dispatch_table : EnumValue(e[1]) <= n)

\* the names of the built-ins
BuiltinNames == {wordlist[k].name : k \in 1..Len(wordlist)} \ {<<>>}

\* the bytes the names are written with, and two they never use
NameBytes == UNION {{name[i] : i \in 1..Len(name)} : name \in BuiltinNames} \cup {122, 64}

\* strings that are no name or need not be one: every string of one or two
\* bytes; every name cut short, with one byte replaced, or with one byte
\* added at its end
Variants ==
    {<<a>> : a \in NameBytes} \cup {<<a, b>> : a \in NameBytes, b \in NameBytes}
    \cup UNION {{SubSeq(name, 1, k) : k \in 1..Len(name)} : name \in BuiltinNames}
    \cup UNION {{[name EXCEPT ![k] = c] : k \in 1..Len(name), c \in {45, 63, 97, 122}} :
                   name \in BuiltinNames}
    \cup {Append(name, c) : name \in {n \in BuiltinNames : Len(n) < MAX_WORD_LENGTH},
                            c \in {63, 114, 122}}
    \cup {<<122, 122, 122, 122, 122, 122, 122, 122, 122, 122>>,
          <<112, 114, 111, 99, 101, 100, 117, 114, 101, 63, 63>>}

FbInit == fb_last = [str |-> <<>>, ret |-> NoBuiltin]

\* find_builtin(str, strlen(str)); the function keeps nothing from one call
\* to the next, so one call is looked at
FindBuiltin(str) ==
    /\ fb_last.str = <<>>
    /\ fb_last' = [str |-> str, ret |-> find_builtin(str, Len(str))]
    /\ UNCHANGED nonfb

FbNext == \E str \in BuiltinNames \cup Variants : Len(str) > 0 /\ FindBuiltin(str)

(* ========================== the scanning loop ========================== *)
\* the bytes the scanned text is made of: " \ 1 e + # :
ScanBytes == {ChDQuote, ChBackslash, 49, ChLowerE, ChPlus, ChHash, ChColon}

\* start is the read position the last iteration began at, way the branch it
\* took, ways the branches taken so far, n the iterations so far
ScanInit ==
    scan = [pc |-> "idle", ptr |-> 0, beyond |-> 0, start |-> 0, way |-> "none",
            ways |-> {}, n |-> 0]

Turn(ptr, tok, way) == [ptr |-> ptr, tok |-> tok, way |-> way]

\* the identifier: label without the final ptr++ of the error token
Identifier_Stuck(src, ptr, beyond, way) ==
    IF isalpha(ByteAt(src, ptr, beyond)) \/ IDENTIFIER_CHAR_TABLE(ByteAt(src, ptr, beyond))
    THEN Turn(SkipIdent(src, ptr),
              <<Token("TOKEN_IDENTIFIER", ptr, SkipIdent(src, ptr) - ptr)>>, way)
    ELSE Turn(ptr, <<Token("TOKEN_ERROR", ptr, 1)>>, way)
\* the identifier: label down to the end of the loop body
Identifier(src, ptr, beyond, way) ==
    IF isalpha(ByteAt(src, ptr, beyond)) \/ IDENTIFIER_CHAR_TABLE(ByteAt(src, ptr, beyond))
    THEN Turn(SkipIdent(src, ptr),
              <<Token("TOKEN_IDENTIFIER", ptr, SkipIdent(src, ptr) - ptr)>>, way)
    ELSE Turn(ptr + 1, <<Token("TOKEN_ERROR", ptr, 1)>>, way)

\* the string branch: the token ends behind the closing quote or at the end
StringBranch(src, ptr, q) ==
    IF q <= Len(src) /\ src[q] = ChDQuote
    THEN Turn(q + 1, <<Token("TOKEN_STRING", ptr, q - ptr + 1)>>, "string")
    ELSE Turn(q, <<Token("TOKEN_ERROR", ptr, q - ptr)>>, "open string")

\* the number branch: a token, or ptr = start and goto identifier
NumberBranch(src, ptr, beyond, num) ==
    IF num.rewind THEN Identifier(src, ptr, beyond, "rewind")
    ELSE Turn(num.ptr, <<Token(IF num.is_float THEN "TOKEN_FLOAT" ELSE "TOKEN_INTEGER",
                               ptr, num.ptr - ptr)>>, "number")

\* the #: branch: a token, or a fall into identifier: with ptr += 2 kept
UninternedBranch(src, ptr, beyond) ==
    IF /\ ptr + 2 <= Len(src)
       /\ (isalpha(src[ptr + 2]) \/ IDENTIFIER_CHAR_TABLE(src[ptr + 2]))
    THEN Turn(SkipUninterned(src, ptr + 2),
              <<Token("TOKEN_UNINTERNED_SYMBOL", ptr, SkipUninterned(src, ptr + 2) - ptr)>>,
              "uninterned")
    ELSE Identifier(src, ptr + 2, beyond, "bare uninterned")

\* one pass through the body of while (ptr < end), from ptr <= Len(src)
Iteration(src, ptr, beyond) ==
    IF isspace(src[ptr]) THEN Turn(ptr + 1, <<>>, "space")
    ELSE IF src[ptr] = ChLParen THEN Turn(ptr + 1, <<Token("TOKEN_LPAREN", ptr, 1)>>, "single")
    ELSE IF src[ptr] = ChRParen THEN Turn(ptr + 1, <<Token("TOKEN_RPAREN", ptr, 1)>>, "single")
    ELSE IF src[ptr] = ChSemi THEN Turn(SkipComment(src, ptr), <<>>, "comment")
    ELSE IF src[ptr] = ChQuote THEN Turn(ptr + 1, <<Token("TOKEN_QUOTE", ptr, 1)>>, "single")
    ELSE IF src[ptr] = ChComma THEN Turn(ptr + 1, <<Token("TOKEN_COMMA", ptr, 1)>>, "single")
    ELSE IF src[ptr] = ChBackquote
         THEN Turn(ptr + 1, <<Token("TOKEN_BACKQUOTE", ptr, 1)>>, "single")
    ELSE IF src[ptr] = ChDQuote THEN StringBranch(src, ptr, SkipString(src, ptr + 1))
    ELSE IF \/ isdigit(src[ptr])
            \/ /\ src[ptr] \in {ChMinus, ChPlus}
               /\ ptr + 1 <= Len(src)
               /\ (isdigit(src[ptr + 1]) \/ src[ptr + 1] = ChDot)
         THEN NumberBranch(src, ptr, beyond, ScanNumber(src, ptr))
    ELSE IF src[ptr] = ChHash /\ ptr + 1 <= Len(src) /\ src[ptr + 1] = ChColon
         THEN UninternedBranch(src, ptr, beyond)
    ELSE Identifier(src, ptr, beyond, "identifier")

\* one more byte of the text to scan
ScanWrite(byte) ==
    /\ scan.pc = "idle"
    /\ Len(source) < MaxSrcLen
    /\ source' = Append(source, byte)
    /\ UNCHANGED <<tokens, shape, lexed, scan>>
    /\ UNCHANGED nonscan

\* lex_tokens is called: ptr = source, end = source + source_len
ScanEnter(beyond) ==
    /\ scan.pc = "idle"
    /\ ~lexed
    /\ scan' = [scan EXCEPT !.pc = "loop", !.ptr = 1, !.beyond = beyond]
    /\ tokens' = <<>>
    /\ UNCHANGED <<source, shape, lexed>>
    /\ UNCHANGED nonscan

Iterated(turn) ==
    /\ scan' = [scan EXCEPT !.ptr = turn.ptr, !.start = scan.ptr, !.way = turn.way,
                            !.ways = scan.ways \cup {turn.way}, !.n = scan.n + 1]
    /\ tokens' = tokens \o turn.tok

\* while (ptr < end) { ... }: one iteration
ScanIterate ==
    /\ scan.pc = "loop"
    /\ scan.ptr <= Len(source)
    /\ Iterated(Iteration(source, scan.ptr, scan.beyond))
    /\ UNCHANGED <<source, shape, lexed>>
    /\ UNCHANGED nonscan

\* ptr < end fails: return tokens
ScanReturn ==
    /\ scan.pc = "loop"
    /\ scan.ptr > Len(source)
    /\ scan' = [scan EXCEPT !.pc = "returned"]
    /\ lexed' = TRUE
    /\ UNCHANGED <<source, tokens, shape>>
    /\ UNCHANGED nonscan

ScanNext ==
    \/ \E byte \in ScanBytes : ScanWrite(byte)
    \/ \E beyond \in BeyondBytes : ScanEnter(beyond)
    \/ ScanIterate
    \/ ScanReturn

(* ============================== evaluator ============================== *)
\* calls of svm_eval_expr in one run, and calls of svm_step in one of them
MaxEvals == 2
MaxSvmSteps == 12

\* the s-expressions of the program main runs: at most this many
MaxSExprs == 16

SYM_UNDEFINED == 0
SYM_FLOAT == 2
SYM_FUNCTION == 4
SYM_BUILTIN == 5

SVM_OK == 0
SVM_ERR_ARG == -1
SVM_ERR_TYPE == -2
SVM_ERR_UNBOUND == -3
SVM_ERR_OOM == -4
SVM_ERR_EVAL == -5

\* expr->id of a sentinel frame (SIZE_MAX)
SentinelId == -1

\* a Value: its type tag and the member of the union the tag selects. A
\* number is kept as the fraction num / den (den = 1 for an integer), a
\* string as its bytes, a function or a built-in as the name of its code
Value(type, num, den, str, ref) ==
    [type |-> type, num |-> num, den |-> den, str |-> str, ref |-> ref]

UndefinedValue == Value(SYM_UNDEFINED, 0, 1, <<>>, "")

IntValue(n) == Value(SYM_INTEGER, n, 1, <<>>, "")

Abs(n) == IF n < 0 THEN -n ELSE n

RECURSIVE Gcd(_, _)
Gcd(a, b) == IF b = 0 THEN a ELSE Gcd(b, a % b)

\* a double, as a fraction in lowest terms
FloatValue(n, d) ==
    LET g == Gcd(Abs(n), Abs(d))
        sgn == IF d < 0 THEN -1 ELSE 1
    IN  Value(SYM_FLOAT, sgn * (n \div g), sgn * (d \div g), <<>>, "")

\* the decimal value of the digits of buf in positions p..q-1
RECURSIVE DecimalOf(_, _, _)
DecimalOf(buf, p, q) ==
    IF q <= p THEN 0 ELSE 10 * DecimalOf(buf, p, q - 1) + (buf[q - 1] - 48)

RECURSIVE Pow10(_)
Pow10(k) == IF k = 0 THEN 1 ELSE 10 * Pow10(k - 1)

\* atoll(buf): white space, an optional sign, the leading digits
atoll(buf) ==
    LET Digits(neg, d) == (IF neg THEN -1 ELSE 1) * DecimalOf(buf, d, SkipDigits(buf, d))
        Signed(s) == Digits(s <= Len(buf) /\ buf[s] = ChMinus,
                            IF s <= Len(buf) /\ buf[s] \in {ChMinus, ChPlus} THEN s + 1 ELSE s)
    IN  Signed(SkipSpaces(buf, 1))

\* atof(buf): white space, an optional sign, digits with an optional point
\* and an optional exponent; [num, den] of the value
atof(buf) ==
    LET Scaled(mant, scale, eneg, p) ==
            IF eneg THEN [num |-> mant, den |-> scale * p]
            ELSE [num |-> mant * p, den |-> scale]
        Exponent(mant, scale, hasE, eneg, x) ==
            Scaled(mant, scale, eneg,
                   IF hasE THEN Pow10(DecimalOf(buf, x, SkipDigits(buf, x))) ELSE 1)
        Mantissa(mant, scale, f) ==
            Exponent(mant, scale,
                     f <= Len(buf) /\ buf[f] \in {ChLowerE, ChUpperE},
                     f <= Len(buf) /\ buf[f] \in {ChLowerE, ChUpperE}
                        /\ f + 1 <= Len(buf) /\ buf[f + 1] = ChMinus,
                     IF f + 1 <= Len(buf) /\ buf[f + 1] \in {ChMinus, ChPlus}
                     THEN f + 2 ELSE f + 1)
        Fraction(sign, whole, i, f) ==
            Mantissa(sign * (whole * Pow10(IF f > i THEN f - i - 1 ELSE 0)
                             + (IF f > i THEN DecimalOf(buf, i + 1, f) ELSE 0)),
                     Pow10(IF f > i THEN f - i - 1 ELSE 0), f)
        Whole(sign, d, i) ==
            Fraction(sign, DecimalOf(buf, d, i), i,
                     IF i <= Len(buf) /\ buf[i] = ChDot THEN SkipDigits(buf, i + 1) ELSE i)
        Digits(sign, d) == Whole(sign, d, SkipDigits(buf, d))
        Signed(s) == Digits(IF s <= Len(buf) /\ buf[s] = ChMinus THEN -1 ELSE 1,
                            IF s <= Len(buf) /\ buf[s] \in {ChMinus, ChPlus} THEN s + 1 ELSE s)
    IN  Signed(SkipSpaces(buf, 1))

\* an annotated token: the lexer's token with the id of its s-expression
SToken(type, text, s_exprid) == [type |-> type, text |-> text, s_exprid |-> s_exprid]

\* an SExpr: its id and the range of its tokens in the token vector (here
\* counted from 1)
SExpr(id, start_idx, end_idx) == [id |-> id, start_idx |-> start_idx, end_idx |-> end_idx]

\* the program flux: the token vector and the s-expressions of
\*   (f 2)  x  (h 1 2)  (k 1)  7  (k a (- 1))  (+ 1 2)  (* 2 1.5)  (- 1 "s")
\*   (+ 1 (- 2))  (/ 8 2 2)  (/ 1 0)  (/ 4)  (/ 8 (+ 1 1))
\* followed by y (the body of g), (g 1), (g 2), (+ 1 (e 1)) and (f 3),
\* the parentheses being TOKEN_IGNORE
FluxTokens ==
    << SToken("TOKEN_IGNORE", <<40>>, 0),
      SToken("TOKEN_IDENTIFIER", <<102>>, 0),
      SToken("TOKEN_INTEGER", <<50>>, 0),
      SToken("TOKEN_IGNORE", <<41>>, 0),
      SToken("TOKEN_IDENTIFIER", <<120>>, 1),
      SToken("TOKEN_IGNORE", <<40>>, 2),
      SToken("TOKEN_IDENTIFIER", <<104>>, 2),
      SToken("TOKEN_INTEGER", <<49>>, 2),
      SToken("TOKEN_INTEGER", <<50>>, 2),
      SToken("TOKEN_IGNORE", <<41>>, 2),
      SToken("TOKEN_IGNORE", <<40>>, 3),
      SToken("TOKEN_IDENTIFIER", <<107>>, 3),
      SToken("TOKEN_INTEGER", <<49>>, 3),
      SToken("TOKEN_IGNORE", <<41>>, 3),
      SToken("TOKEN_INTEGER", <<55>>, 4),
      SToken("TOKEN_IGNORE", <<40>>, 5),
      SToken("TOKEN_IDENTIFIER", <<107>>, 5),
      SToken("TOKEN_IDENTIFIER", <<97>>, 5),
      SToken("TOKEN_IGNORE", <<40>>, 6),
      SToken("TOKEN_IDENTIFIER", <<45>>, 6),
      SToken("TOKEN_INTEGER", <<49>>, 6),
      SToken("TOKEN_IGNORE", <<41>>, 6),
      SToken("TOKEN_IGNORE", <<41>>, 5),
      SToken("TOKEN_IGNORE", <<40>>, 7),
      SToken("TOKEN_IDENTIFIER", <<43>>, 7),
      SToken("TOKEN_INTEGER", <<49>>, 7),
      SToken("TOKEN_INTEGER", <<50>>, 7),
      SToken("TOKEN_IGNORE", <<41>>, 7),
      SToken("TOKEN_IGNORE", <<40>>, 8),
      SToken("TOKEN_IDENTIFIER", <<42>>, 8),
      SToken("TOKEN_INTEGER", <<50>>, 8),
      SToken("TOKEN_FLOAT", <<49, 46, 53>>, 8),
      SToken("TOKEN_IGNORE", <<41>>, 8),
      SToken("TOKEN_IGNORE", <<40>>, 9),
      SToken("TOKEN_IDENTIFIER", <<45>>, 9),
      SToken("TOKEN_INTEGER", <<49>>, 9),
      SToken("TOKEN_STRING", <<34, 115, 34>>, 9),
      SToken("TOKEN_IGNORE", <<41>>, 9),
      SToken("TOKEN_IGNORE", <<40>>, 10),
      SToken("TOKEN_IDENTIFIER", <<43>>, 10),
      SToken("TOKEN_INTEGER", <<49>>, 10),
      SToken("TOKEN_IGNORE", <<40>>, 11),
      SToken("TOKEN_IDENTIFIER", <<45>>, 11),
      SToken("TOKEN_INTEGER", <<50>>, 11),
      SToken("TOKEN_IGNORE", <<41>>, 11),
      SToken("TOKEN_IGNORE", <<41>>, 10),
      SToken("TOKEN_IGNORE", <<40>>, 12),
      SToken("TOKEN_IDENTIFIER", <<47>>, 12),
      SToken("TOKEN_INTEGER", <<56>>, 12),
      SToken("TOKEN_INTEGER", <<50>>, 12),
      SToken("TOKEN_INTEGER", <<50>>, 12),
      SToken("TOKEN_IGNORE", <<41>>, 12),
      SToken("TOKEN_IGNORE", <<40>>, 13),
      SToken("TOKEN_IDENTIFIER", <<47>>, 13),
      SToken("TOKEN_INTEGER", <<49>>, 13),
      SToken("TOKEN_INTEGER", <<48>>, 13),
      SToken("TOKEN_IGNORE", <<41>>, 13),
      SToken("TOKEN_IGNORE", <<40>>, 14),
      SToken("TOKEN_IDENTIFIER", <<47>>, 14),
      SToken("TOKEN_INTEGER", <<52>>, 14),
      SToken("TOKEN_IGNORE", <<41>>, 14),
      SToken("TOKEN_IGNORE", <<40>>, 15),
      SToken("TOKEN_IDENTIFIER", <<47>>, 15),
      SToken("TOKEN_INTEGER", <<56>>, 15),
      SToken("TOKEN_IGNORE", <<40>>, 16),
      SToken("TOKEN_IDENTIFIER", <<43>>, 16),
      SToken("TOKEN_INTEGER", <<49>>, 16),
      SToken("TOKEN_INTEGER", <<49>>, 16),
      SToken("TOKEN_IGNORE", <<41>>, 16),
      SToken("TOKEN_IGNORE", <<41>>, 15),
      SToken("TOKEN_IDENTIFIER", <<121>>, 17),
      SToken("TOKEN_IGNORE", <<40>>, 18),
      SToken("TOKEN_IDENTIFIER", <<103>>, 18),
      SToken("TOKEN_INTEGER", <<49>>, 18),
      SToken("TOKEN_IGNORE", <<41>>, 18),
      SToken("TOKEN_IGNORE", <<40>>, 19),
      SToken("TOKEN_IDENTIFIER", <<103>>, 19),
      SToken("TOKEN_INTEGER", <<50>>, 19),
      SToken("TOKEN_IGNORE", <<41>>, 19),
      SToken("TOKEN_IGNORE", <<40>>, 20),
      SToken("TOKEN_IDENTIFIER", <<43>>, 20),
      SToken("TOKEN_INTEGER", <<49>>, 20),
      SToken("TOKEN_IGNORE", <<40>>, 21),
      SToken("TOKEN_IDENTIFIER", <<101>>, 21),
      SToken("TOKEN_INTEGER", <<49>>, 21),
      SToken("TOKEN_IGNORE", <<41>>, 21),
      SToken("TOKEN_IGNORE", <<41>>, 20),
      SToken("TOKEN_IGNORE", <<40>>, 22),
      SToken("TOKEN_IDENTIFIER", <<102>>, 22),
      SToken("TOKEN_INTEGER", <<51>>, 22),
      SToken("TOKEN_IGNORE", <<41>>, 22) >>

FluxSExprs ==
    << SExpr(0, 2, 3),
      SExpr(1, 5, 5),
      SExpr(2, 7, 9),
      SExpr(3, 12, 13),
      SExpr(4, 15, 15),
      SExpr(5, 17, 21),
      SExpr(6, 20, 21),
      SExpr(7, 25, 27),
      SExpr(8, 30, 32),
      SExpr(9, 35, 37),
      SExpr(10, 40, 44),
      SExpr(11, 43, 44),
      SExpr(12, 48, 51),
      SExpr(13, 54, 56),
      SExpr(14, 59, 60),
      SExpr(15, 63, 68),
      SExpr(16, 66, 68),
      SExpr(17, 71, 71),
      SExpr(18, 73, 74),
      SExpr(19, 77, 78),
      SExpr(20, 81, 85),
      SExpr(21, 84, 85),
      SExpr(22, 89, 90) >>

\* prog->max_depth + 1 slots of the result cache
FluxSlots == Len(prog.sexprs)

\* the expressions evaluate_program hands to svm_eval_expr
TopLevel == {0, 2, 3, 5, 7, 8, 9, 10, 12, 13, 14, 15}

\* the functions: the expressions of their bodies (their parameter tokens
\* are in fparams)
\* g returns its parameter; e has no body form
LambdaBody == [f |-> <<1>>, h |-> <<4>>, k |-> <<4>>, g |-> <<17>>, e |-> <<>>]

\* their parameters: y for f, h, g and e, y and z for k
LambdaParams ==
    [f |-> <<SToken("TOKEN_IDENTIFIER", <<121>>, 0)>>,
     h |-> <<SToken("TOKEN_IDENTIFIER", <<121>>, 0)>>,
     k |-> <<SToken("TOKEN_IDENTIFIER", <<121>>, 0), SToken("TOKEN_IDENTIFIER", <<122>>, 0)>>,
     g |-> <<SToken("TOKEN_IDENTIFIER", <<121>>, 0)>>,
     e |-> <<SToken("TOKEN_IDENTIFIER", <<121>>, 0)>>]

\* for (j...) if (cand->id == cid) child = cand : position in prog->sexprs
FindSExpr(id) ==
    LET hits == {j \in 1..Len(prog.sexprs) : prog.sexprs[j].id = id}
    IN  IF hits = {} THEN 0 ELSE CHOOSE j \in hits : \A h \in hits : j <= h

(* ----------------------------- environment ----------------------------- *)
\* a Symbol of a scope, and a scope with its symbols, newest first
EnvSymbol(name, type, value, flags) ==
    [name |-> name, name_len |-> Len(name), name_hash |-> symtab_hash(name, Len(name)),
     type |-> type, value |-> value, flags |-> flags]

Scope(parent, bucket_count, symbols) ==
    [parent |-> parent, bucket_count |-> bucket_count, symbols |-> symbols, live |-> TRUE]

BuiltinSymbol(name, fn) ==
    EnvSymbol(name, SYM_BUILTIN, Value(SYM_BUILTIN, 0, 1, <<>>, fn), SYM_FLAG_CONST)

FunctionSymbol(name, fn) ==
    EnvSymbol(name, SYM_FUNCTION, Value(SYM_FUNCTION, 0, 1, <<>>, fn), SYM_FLAG_MUTABLE)

\* SymTab* g_symtab = { 0 }: the global table is NULL and nothing assigns it
g_symtab == 0

\* the environment a caller of svm_eval_expr has built: the four arithmetic
\* built-ins, the functions f, h, k, g and e, x = 10 and a = 3
GlobalScope ==
    Scope(0, 32,
          << BuiltinSymbol(<<ChPlus>>, "bltn_add"), BuiltinSymbol(<<ChMinus>>, "bltn_sub"),
             BuiltinSymbol(<<42>>, "bltn_mul"), BuiltinSymbol(<<47>>, "bltn_div"),
             FunctionSymbol(<<102>>, "f"), FunctionSymbol(<<104>>, "h"),
             FunctionSymbol(<<107>>, "k"),
             EnvSymbol(<<120>>, SYM_INTEGER, IntValue(10), SYM_FLAG_MUTABLE),
             EnvSymbol(<<97>>, SYM_INTEGER, IntValue(3), SYM_FLAG_MUTABLE),
             FunctionSymbol(<<103>>, "g"), FunctionSymbol(<<101>>, "e") >>)

\* a scope of a caller of svm_eval_expr: a child of that environment, x = 1
LocalsScope ==
    Scope(1, 32, << EnvSymbol(<<120>>, SYM_INTEGER, IntValue(1), SYM_FLAG_MUTABLE) >>)

\* the symbols of a scope that lie in the bucket of a hash
InBucket(scope, hash) ==
    {i \in 1..Len(scope.symbols) :
        BucketIndex(scope.symbols[i].name_hash, scope.bucket_count)
            = BucketIndex(hash, scope.bucket_count)}

\* the first symbol of one scope that matches, 0 when there is none
LocalMatch(scope, name, cmp) ==
    LET First(hits) == IF hits = {} THEN 0 ELSE CHOOSE i \in hits : \A j \in hits : i <= j
        Hits(hash) == First({i \in InBucket(scope, hash) :
                                SymMatches(scope.symbols[i], hash, name, Len(name), cmp)})
    IN  Hits(symtab_hash(name, Len(name)))

\* symtab_lookup(table, name, name_len): the scope and position of the
\* binding found, scope 0 for NULL
RECURSIVE EnvLookup(_, _, _)
EnvLookup(es, table, name) ==
    IF table = 0 \/ Len(name) = 0 THEN [scope |-> 0, pos |-> 0]
    ELSE LET Found(pos) == IF pos # 0 THEN [scope |-> table, pos |-> pos]
                            ELSE EnvLookup(es, es[table].parent, name)
         IN  Found(LocalMatch(es[table], name, "memcmp"))

\* symtab_lookup follows a freed SymTab or reads a symbol of the unmapped arena
RECURSIVE LookupReadsFreed(_, _, _, _)
LookupReadsFreed(es, alive, table, name) ==
    IF table = 0 \/ Len(name) = 0 THEN FALSE
    ELSE \/ ~es[table].live
         \/ (~alive /\ InBucket(es[table], symtab_hash(name, Len(name))) # {})
         \/ (LocalMatch(es[table], name, "memcmp") = 0
             /\ LookupReadsFreed(es, alive, es[table].parent, name))

\* symtab_push_scope(parent): the new scope shares the parent's arena
EnvPushScope(es, parent) ==
    Append(es, Scope(parent, es[parent].bucket_count, <<>>))

\* symtab_define(table, name, ...): rc, the scopes after it, and the bytes
\* the reversed memcpy leaves in the caller's name buffer
EnvDefine(es, table, name, type, value, flags) ==
    LET new_sym == [EnvSymbol(name, type, value, flags) EXCEPT !.name = ArenaBytes(Len(name))]
        Defined(pos) ==
            IF pos # 0
            THEN IF IsConst(es[table].symbols[pos].flags)
                 THEN [rc |-> -3, es |-> es, name |-> name]
                 ELSE [rc |-> 0, name |-> name,
                       es |-> [es EXCEPT ![table].symbols[pos].type = type,
                                         ![table].symbols[pos].value = value,
                                         ![table].symbols[pos].flags = flags]]
            ELSE [rc |-> 0, name |-> ArenaBytes(Len(name)),
                  es |-> [es EXCEPT ![table].symbols = <<new_sym>> \o es[table].symbols]]
    IN  IF Len(name) = 0 THEN [rc |-> -2, es |-> es, name |-> name]
        ELSE Defined(LocalMatch(es[table], name, "strncmp"))

\* symtab_pop_scope(table): arena_free(table->arena), free(table)
EnvPopScope(es, table) == [es EXCEPT ![table].live = FALSE]

\* svm_eval_atom(vm, env, tok, out): rc and *out
svm_eval_atom(es, env, tok) ==
    IF env = 0 THEN [rc |-> SVM_ERR_ARG, v |-> UndefinedValue]
    ELSE
        CASE tok.type = "TOKEN_INTEGER" ->
                [rc |-> SVM_OK, v |-> IntValue(atoll(CopyToBuf(tok.text, 31)))]
          [] tok.type = "TOKEN_FLOAT" ->
                LET Double(q) == [rc |-> SVM_OK, v |-> FloatValue(q.num, q.den)]
                IN  Double(atof(CopyToBuf(tok.text, 31)))
          [] tok.type = "TOKEN_STRING" ->
                [rc |-> SVM_OK,
                 v |-> Value(SYM_STRING, 0, 1, SubSeq(tok.text, 2, Len(tok.text) - 1), "")]
          [] tok.type = "TOKEN_IDENTIFIER" ->
                LET Bound(b) ==
                        IF b.scope = 0 THEN [rc |-> SVM_ERR_UNBOUND, v |-> UndefinedValue]
                        ELSE [rc |-> SVM_OK,
                              v |-> [es[b.scope].symbols[b.pos].value
                                     EXCEPT !.type = es[b.scope].symbols[b.pos].type]]
                IN  Bound(EnvLookup(es, env, tok.text))
          [] OTHER -> [rc |-> SVM_ERR_EVAL, v |-> UndefinedValue]

\* svm_eval_atom reads freed memory: only an identifier is looked up
AtomReadsFreed(es, alive, env, tok) ==
    tok.type = "TOKEN_IDENTIFIER" /\ LookupReadsFreed(es, alive, env, tok.text)

(* ------------------------------ built-ins ------------------------------ *)
IsNumber(v) == v.type = SYM_INTEGER \/ v.type = SYM_FLOAT

\* one step of the arithmetic of two numbers, on fractions [num, den]; the
\* rounding of a double is left out
FracOp(op, a, b) ==
    CASE op = "add" -> [num |-> a.num * b.den + b.num * a.den, den |-> a.den * b.den]
      [] op = "sub" -> [num |-> a.num * b.den - b.num * a.den, den |-> a.den * b.den]
      [] op = "mul" -> [num |-> a.num * b.num, den |-> a.den * b.den]
      [] OTHER -> [num |-> a.num * b.den, den |-> a.den * b.num]

Frac(v) == [num |-> v.num, den |-> v.den]

\* result = result op arg, for the arguments from position i on
RECURSIVE FoldArgs(_, _, _, _)
FoldArgs(op, acc, args, i) ==
    IF i > Len(args) THEN acc
    ELSE FoldArgs(op, FracOp(op, acc, Frac(args[i])), args, i + 1)

AllInt(args) == \A i \in 1..Len(args) : args[i].type = SYM_INTEGER

\* what a built-in returns: rc, whether *out was written and with what,
\* whether the call ended in a crash
BuiltinResult(code, out) == [rc |-> code, wrote |-> TRUE, out |-> out, crashed |-> FALSE]
BuiltinError(code) == [rc |-> code, wrote |-> FALSE, out |-> UndefinedValue, crashed |-> FALSE]
BuiltinCrash == [rc |-> 0, wrote |-> FALSE, out |-> UndefinedValue, crashed |-> TRUE]

\* the argument loop the four built-ins share. A token of a child expression
\* pushes the child's cached value; the search for the child that follows
\* walks vm->pc->tokens, a vector of Token, as if it held SExpr pointers: it
\* crashes, or finds no candidate and leaves i where it is, so that every
\* further token of the child pushes the value again
\* what the loop does with token t: stop with a result, or go on with args
CollectToken(es, alive, env, ch, call, args, t, ub) ==
    LET done(code, dead) == [stop |-> TRUE, rc |-> code, args |-> args, crashed |-> dead]
        Atom(a) == IF a.rc # SVM_OK THEN done(a.rc, FALSE)
                   ELSE [stop |-> FALSE, args |-> Append(args, a.v)]
    IN  IF t.type = "TOKEN_IGNORE" THEN [stop |-> FALSE, args |-> args]
        ELSE IF t.s_exprid > call.id
        THEN IF t.s_exprid >= FluxSlots \/ ch[t.s_exprid].type = SYM_UNDEFINED
             THEN done(SVM_ERR_EVAL, FALSE)
             ELSE IF ub = "crash" THEN done(SVM_OK, TRUE)
             ELSE [stop |-> FALSE, args |-> Append(args, ch[t.s_exprid])]
        ELSE IF ub = "crash" /\ AtomReadsFreed(es, alive, env, t) THEN done(SVM_OK, TRUE)
        ELSE Atom(svm_eval_atom(es, env, t))

RECURSIVE CollectArgs(_, _, _, _, _, _, _, _)
CollectArgs(es, alive, env, ch, call, i, args, ub) ==
    LET Loop(n) == IF n.stop THEN [rc |-> n.rc, args |-> n.args, crashed |-> n.crashed]
                   ELSE CollectArgs(es, alive, env, ch, call, i + 1, n.args, ub)
    IN  IF i > call.end_idx THEN [rc |-> SVM_OK, args |-> args, crashed |-> FALSE]
        ELSE Loop(CollectToken(es, alive, env, ch, call, args, prog.tokens[i], ub))

\* the sum, difference or product of the arguments, integer when all are
Arith(op, first, args, from) ==
    LET r == FoldArgs(op, first, args, from)
    IN  IF AllInt(args) THEN IntValue(r.num) ELSE FloatValue(r.num, r.den)

bltn_add(args) ==
    IF Len(args) = 0 THEN BuiltinResult(SVM_OK, IntValue(0))
    ELSE IF \E i \in 1..Len(args) : ~IsNumber(args[i]) THEN BuiltinError(SVM_ERR_TYPE)
    ELSE BuiltinResult(SVM_OK, Arith("add", [num |-> 0, den |-> 1], args, 1))

bltn_sub(args) ==
    IF Len(args) = 0 THEN BuiltinResult(SVM_OK, IntValue(0))
    ELSE IF Len(args) = 1
    THEN IF args[1].type = SYM_INTEGER THEN BuiltinResult(SVM_OK, IntValue(-args[1].num))
         ELSE IF args[1].type = SYM_FLOAT
         THEN BuiltinResult(SVM_OK, FloatValue(-args[1].num, args[1].den))
         ELSE BuiltinError(SVM_ERR_TYPE)
    ELSE IF \E i \in 1..Len(args) : ~IsNumber(args[i]) THEN BuiltinError(SVM_ERR_TYPE)
    ELSE BuiltinResult(SVM_OK, Arith("sub", Frac(args[1]), args, 2))

bltn_mul(args) ==
    IF Len(args) = 0 THEN BuiltinResult(SVM_OK, IntValue(1))
    ELSE IF \E i \in 1..Len(args) : ~IsNumber(args[i]) THEN BuiltinError(SVM_ERR_TYPE)
    ELSE BuiltinResult(SVM_OK, Arith("mul", [num |-> 1, den |-> 1], args, 1))

\* the first argument the checking loop of bltn_div stops at, and its verdict
RECURSIVE DivCheck(_, _)
DivCheck(args, i) ==
    IF i > Len(args) THEN SVM_OK
    ELSE IF ~IsNumber(args[i]) THEN SVM_ERR_TYPE
    ELSE IF i > 1 /\ args[i].num = 0 THEN SVM_ERR_EVAL
    ELSE DivCheck(args, i + 1)

bltn_div(args) ==
    IF Len(args) = 0 THEN BuiltinError(SVM_ERR_ARG)
    ELSE IF Len(args) = 1
    THEN IF ~IsNumber(args[1]) THEN BuiltinError(SVM_ERR_TYPE)
         ELSE IF args[1].num = 0 THEN BuiltinError(SVM_ERR_EVAL)
         ELSE BuiltinResult(SVM_OK, FloatValue(args[1].den, args[1].num))
    ELSE IF DivCheck(args, 1) # SVM_OK THEN BuiltinError(DivCheck(args, 1))
    ELSE LET r == FoldArgs("div", Frac(args[1]), args, 2)
         IN  BuiltinResult(SVM_OK, FloatValue(r.num, r.den))

\* fp(vm, env, cur, &res) for the built-in a symbol names
CallBuiltin(fn, es, alive, env, ch, call, ub) ==
    LET Collected(c) ==
            IF c.crashed THEN BuiltinCrash
            ELSE IF c.rc # SVM_OK THEN BuiltinError(c.rc)
            ELSE CASE fn = "bltn_add" -> bltn_add(c.args)
                   [] fn = "bltn_sub" -> bltn_sub(c.args)
                   [] fn = "bltn_mul" -> bltn_mul(c.args)
                   [] OTHER -> bltn_div(c.args)
    IN  Collected(CollectArgs(es, alive, env, ch, call, call.start_idx + 1, <<>>, ub))

(* ------------------------------ svm_step ------------------------------- *)
WorkItem(expr, env, fn, body_idx, dest_id) ==
    [expr |-> expr, env |-> env, fn |-> fn, body_idx |-> body_idx, dest_id |-> dest_id]

\* capacity of the work stack: arena_vec_new(..., cap * 2 + 8)
StackCapacity == Len(prog.sexprs) * 2 + 8

\* the state one call of svm_step works on and leaves behind, with its
\* return value r
SvmState(r, es, alive, fp, ch, st, out, log, app, cal, dead) ==
    [r |-> r, es |-> es, alive |-> alive, fp |-> fp, ch |-> ch, st |-> st, out |-> out,
     log |-> log, app |-> app, cal |-> cal, crashed |-> dead]

Pop(st) == SubSeq(st, 1, Len(st) - 1)

NoApplication == [fn |-> "", call |-> 0, nargs |-> 0, nparams |-> 0, env |-> 0,
                  scope |-> 0, home |-> 0, r |-> 0]

NoCall == [fn |-> "", call |-> 0, args |-> <<>>, argsok |-> TRUE,
           res |-> BuiltinError(SVM_OK)]

\* the children loop (svm.c:193-220): the first child expression that has no
\* cached value yet is pushed; a cached child is skipped up to its end_idx
RECURSIVE FirstPending(_, _, _)
FirstPending(ch, cur, i) ==
    IF i > cur.end_idx THEN [kind |-> "none", cid |-> 0, at |-> 0]
    ELSE LET t == prog.tokens[i]
         IN  IF t.type = "TOKEN_IGNORE" THEN FirstPending(ch, cur, i + 1)
             ELSE IF t.s_exprid > cur.id
             THEN IF t.s_exprid >= FluxSlots THEN [kind |-> "error", cid |-> 0, at |-> i]
                  ELSE IF FindSExpr(t.s_exprid) = 0 THEN [kind |-> "error", cid |-> 0, at |-> i]
                  ELSE IF ch[t.s_exprid].type = SYM_UNDEFINED
                  THEN [kind |-> "push", cid |-> t.s_exprid, at |-> i]
                  ELSE FirstPending(ch, cur, prog.sexprs[FindSExpr(t.s_exprid)].end_idx + 1)
             ELSE FirstPending(ch, cur, i + 1)

\* an argument of a call was evaluated: the call and the token it starts at
EvalEvent(call, at) == [call |-> call, at |-> at]

\* the binding loop of a function application (svm.c:250-271)
\* the value the loop binds for token t: none (the token is skipped), a
\* failure, a crash, or the value of an atom or of a cached child
BindValue(es, alive, env, ch, cur, t, ub) ==
    LET Atom(a) == IF a.rc # SVM_OK THEN [kind |-> "error", rc |-> a.rc]
                   ELSE [kind |-> "value", v |-> a.v, isAtom |-> TRUE]
    IN  IF t.s_exprid < cur.id THEN [kind |-> "skip"]
        ELSE IF t.s_exprid = cur.id
        THEN IF ub = "crash" /\ AtomReadsFreed(es, alive, env, t) THEN [kind |-> "crash"]
             ELSE Atom(svm_eval_atom(es, env, t))
        ELSE IF t.s_exprid >= FluxSlots \/ ch[t.s_exprid].type = SYM_UNDEFINED
        THEN [kind |-> "error", rc |-> SVM_ERR_EVAL]
        ELSE [kind |-> "value", v |-> ch[t.s_exprid], isAtom |-> FALSE]

\* one turn of the binding loop: token t against parameter p
BindToken(es, alive, ps, fn_scope, cur, i, argi, log, t, p, val, ub) ==
    LET done(code, e, al, dead) ==
            [stop |-> TRUE, rc |-> code, es |-> e, alive |-> al, ps |-> ps, log |-> log,
             crashed |-> dead]
        skip(n) == [stop |-> FALSE, es |-> es, ps |-> ps, argi |-> argi + n, log |-> log]
        Defined(d) ==
            [stop |-> FALSE, es |-> d.es, ps |-> [ps EXCEPT ![argi + 1].text = d.name],
             argi |-> argi + 1,
             log |-> IF val.isAtom THEN Append(log, EvalEvent(cur.id, i)) ELSE log]
    IN  IF t.type = "TOKEN_IGNORE" THEN skip(0)
        ELSE IF p.type # "TOKEN_IDENTIFIER" THEN skip(1)
        ELSE IF val.kind = "skip" THEN skip(0)
        ELSE IF val.kind = "crash" THEN done(SVM_OK, es, alive, TRUE)
        ELSE IF val.kind = "error" THEN done(val.rc, EnvPopScope(es, fn_scope), FALSE, FALSE)
        ELSE IF ub = "crash" /\ ~alive THEN done(SVM_OK, es, alive, TRUE)
        ELSE Defined(EnvDefine(es, fn_scope, p.text, val.v.type, val.v, SYM_FLAG_MUTABLE))

\* the binding loop of a function application (svm.c:250-271)
RECURSIVE BindArgs(_, _, _, _, _, _, _, _, _, _, _)
BindArgs(es, alive, ps, fn_scope, env, ch, cur, i, argi, log, ub) ==
    LET Loop(n) ==
            IF n.stop THEN [rc |-> n.rc, es |-> n.es, alive |-> n.alive, ps |-> n.ps,
                            log |-> n.log, crashed |-> n.crashed]
            ELSE BindArgs(n.es, alive, n.ps, fn_scope, env, ch, cur, i + 1, n.argi, n.log, ub)
    IN  IF i > cur.end_idx \/ argi >= Len(ps)
        THEN [rc |-> SVM_OK, es |-> es, alive |-> alive, ps |-> ps, log |-> log,
              crashed |-> FALSE]
        ELSE Loop(BindToken(es, alive, ps, fn_scope, cur, i, argi, log, prog.tokens[i],
                            ps[argi + 1],
                            BindValue(es, alive, env, ch, cur, prog.tokens[i], ub), ub))

\* the argument expressions of a call: the tokens they start at
RECURSIVE ArgStarts(_, _)
ArgStarts(cur, i) ==
    IF i > cur.end_idx THEN <<>>
    ELSE LET t == prog.tokens[i]
         IN  IF t.type = "TOKEN_IGNORE" THEN ArgStarts(cur, i + 1)
             ELSE IF t.s_exprid > cur.id /\ FindSExpr(t.s_exprid) # 0
             THEN <<i>> \o ArgStarts(cur, prog.sexprs[FindSExpr(t.s_exprid)].end_idx + 1)
             ELSE <<i>> \o ArgStarts(cur, i + 1)

\* the values of the argument expressions of a call, each taken once
ArgValues(es, env, ch, cur) ==
    LET Each(at) ==
            [j \in 1..Len(at) |->
                IF prog.tokens[at[j]].s_exprid > cur.id THEN ch[prog.tokens[at[j]].s_exprid]
                ELSE svm_eval_atom(es, env, prog.tokens[at[j]]).v]
    IN  Each(ArgStarts(cur, cur.start_idx + 1))

ArgsEvaluate(es, env, cur) ==
    LET Each(at) ==
            \A j \in 1..Len(at) :
                prog.tokens[at[j]].s_exprid = cur.id
                    => svm_eval_atom(es, env, prog.tokens[at[j]]).rc = SVM_OK
    IN  Each(ArgStarts(cur, cur.start_idx + 1))

\* the atoms a built-in evaluates, in the order of its loop, up to the first
\* that fails
RECURSIVE AtomEvents(_, _, _, _)
AtomEvents(es, env, cur, i) ==
    IF i > cur.end_idx THEN <<>>
    ELSE LET t == prog.tokens[i]
         IN  IF t.type = "TOKEN_IGNORE" \/ t.s_exprid > cur.id
             THEN AtomEvents(es, env, cur, i + 1)
             ELSE IF svm_eval_atom(es, env, t).rc # SVM_OK THEN <<EvalEvent(cur.id, i)>>
             ELSE <<EvalEvent(cur.id, i)>> \o AtomEvents(es, env, cur, i + 1)

\* svm_step leaves machine m with return value r
Ret(m, r) == [m EXCEPT !.r = r]
Crashed(m) == [m EXCEPT !.r = 0, !.crashed = TRUE]

\* the expression of the frame on top is done with value v (svm.c:186-189)
Done(m, rootid, id, v) ==
    [m EXCEPT !.r = 1, !.ch[id] = v, !.st = Pop(m.st),
              !.out = IF id = rootid THEN v ELSE m.out]

\* a function: the arguments are bound, the frame is replaced by the one that
\* drives the body (svm.c:272-282)
Bound(m, cur, env, fn, home, fn_scope, bind) ==
    LET app1(r) == [fn |-> fn, call |-> cur.id,
                    nargs |-> Len(ArgStarts(cur, cur.start_idx + 1)),
                    nparams |-> Len(m.fp[fn]), env |-> env, scope |-> fn_scope,
                    home |-> home, r |-> r]
        m1 == [m EXCEPT !.es = bind.es, !.alive = bind.alive, !.fp[fn] = bind.ps,
                        !.log = bind.log]
    IN  IF bind.crashed THEN Crashed(m1)
        ELSE IF bind.rc # SVM_OK THEN [m1 EXCEPT !.r = bind.rc, !.app = app1(bind.rc)]
        ELSE [m1 EXCEPT !.r = 1, !.app = app1(1),
                        !.st = Append(Pop(m.st), WorkItem(SentinelId, fn_scope, fn, 0, cur.id))]

\* fn_scope = symtab_push_scope(env) and the binding loop (svm.c:241-271)
Apply(m, cur, env, fn, home, ub) ==
    IF ub = "crash" /\ ~m.es[env].live THEN Crashed(m)
    ELSE Bound(m, cur, env, fn, home, Len(m.es) + 1,
               BindArgs(EnvPushScope(m.es, env), m.alive, m.fp[fn], Len(m.es) + 1, env, m.ch,
                        cur, cur.start_idx + 1, 0, m.log, ub))

\* a built-in has returned (svm.c:231-238)
Finished(m, rootid, cur, cal1, log1) ==
    IF cal1.res.crashed THEN [Crashed(m) EXCEPT !.cal = cal1]
    ELSE IF cal1.res.rc # SVM_OK THEN [m EXCEPT !.r = cal1.res.rc, !.cal = cal1, !.log = log1]
    ELSE [Done(m, rootid, cur.id, cal1.res.out) EXCEPT !.cal = cal1, !.log = log1]

\* rc = fp(vm, env, cur, &res) (svm.c:229-231)
Call(m, rootid, cur, env, fn, ub) ==
    Finished(m, rootid, cur,
             [fn |-> fn, call |-> cur.id, args |-> ArgValues(m.es, env, m.ch, cur),
              argsok |-> ArgsEvaluate(m.es, env, cur),
              res |-> CallBuiltin(fn, m.es, m.alive, env, m.ch, cur, ub)],
             m.log \o AtomEvents(m.es, env, cur, cur.start_idx + 1))

\* the binding b of the operator (svm.c:226-229, 239-240, 284)
Dispatch(m, rootid, cur, env, b, ub) ==
    IF b.scope = 0 THEN Ret(m, SVM_ERR_UNBOUND)
    ELSE IF m.es[b.scope].symbols[b.pos].type = SYM_BUILTIN
    THEN Call(m, rootid, cur, env, m.es[b.scope].symbols[b.pos].value.ref, ub)
    ELSE IF m.es[b.scope].symbols[b.pos].type = SYM_FUNCTION
    THEN Apply(m, cur, env, m.es[b.scope].symbols[b.pos].value.ref, b.scope, ub)
    ELSE Ret(m, SVM_ERR_TYPE)

\* symtab_lookup(env, ...) found b1; if (!b) b = symtab_lookup(g_symtab, ...)
Resolve(m, rootid, cur, env, t, b1, ub) ==
    IF ub = "crash"
       /\ \/ LookupReadsFreed(m.es, m.alive, env, t.text)
          \/ (b1.scope = 0 /\ LookupReadsFreed(m.es, m.alive, g_symtab, t.text))
    THEN Crashed(m)
    ELSE Dispatch(m, rootid, cur, env,
                  IF b1.scope = 0 THEN EnvLookup(m.es, g_symtab, t.text) ELSE b1, ub)

\* after the children loop found pend (svm.c:193-225)
Children(m, rootid, cur, env, t, pend, ub) ==
    IF pend.kind = "error" THEN Ret(m, SVM_ERR_EVAL)
    ELSE IF pend.kind = "push"
    THEN IF Len(m.st) >= StackCapacity THEN Ret(m, SVM_ERR_OOM)
         ELSE [m EXCEPT !.r = 1, !.st = Append(m.st, WorkItem(pend.cid, env, "", 0, 0)),
                        !.log = Append(m.log, EvalEvent(cur.id, pend.at))]
    ELSE IF t.type # "TOKEN_IDENTIFIER" THEN Ret(m, SVM_ERR_TYPE)
    ELSE Resolve(m, rootid, cur, env, t, EnvLookup(m.es, env, t.text), ub)

\* an atom was evaluated (svm.c:183-189)
AtomResult(m, rootid, cur, a) ==
    IF a.rc # SVM_OK THEN Ret(m, a.rc) ELSE Done(m, rootid, cur.id, a.v)

\* the frame of expression cur, whose first token is t (svm.c:171-191)
Expression(m, rootid, cur, env, t, ub) ==
    IF m.ch[cur.id].type # SYM_UNDEFINED THEN Done(m, rootid, cur.id, m.ch[cur.id])
    ELSE IF cur.start_idx = cur.end_idx
    THEN IF ub = "crash" /\ AtomReadsFreed(m.es, m.alive, env, t) THEN Crashed(m)
         ELSE AtomResult(m, rootid, cur, svm_eval_atom(m.es, env, t))
    ELSE Children(m, rootid, cur, env, t, FirstPending(m.ch, cur, cur.start_idx + 1), ub)

\* the frame that drives the body of a function (svm.c:143-169)
BodyFrame(m, rootid, fr, body, ub) ==
    LET blen == Len(body)
        popUB == ub = "crash" /\ (~m.alive \/ ~m.es[fr.env].live)
        lastid == body[blen]
        popped(v) == [Done(m, rootid, fr.dest_id, v)
                      EXCEPT !.es = EnvPopScope(m.es, fr.env), !.alive = FALSE]
        m1 == [m EXCEPT !.st[Len(m.st)].body_idx = fr.body_idx + 1]
    IN  IF blen = 0 THEN IF popUB THEN Crashed(m) ELSE popped(UndefinedValue)
        ELSE IF fr.body_idx < blen
        THEN IF Len(m.st) >= StackCapacity THEN Ret(m1, SVM_ERR_OOM)
             ELSE [m1 EXCEPT !.r = 1,
                             !.st = Append(m1.st, WorkItem(body[fr.body_idx + 1], fr.env, "",
                                                           0, 0))]
        ELSE IF lastid >= FluxSlots \/ m.ch[lastid].type = SYM_UNDEFINED
        THEN Ret(m, SVM_ERR_EVAL)
        ELSE IF popUB THEN Crashed(m)
        ELSE popped(m.ch[lastid])

ExprFrame(m, rootid, cur, env, ub) ==
    Expression(m, rootid, cur, env, prog.tokens[cur.start_idx], ub)

\* svm_step(vm, prog, stack, root_dest_id, out) on the state given; ub picks
\* what an access to freed memory or the built-ins' child search does
svm_step(es, alive, fp, ch, st, rootid, out, log, app, cal, ub) ==
    LET Frame(m, fr) ==
            IF fr.expr = SentinelId THEN BodyFrame(m, rootid, fr, LambdaBody[fr.fn], ub)
            ELSE ExprFrame(m, rootid, prog.sexprs[FindSExpr(fr.expr)], fr.env, ub)
        Machine(m) == IF Len(st) = 0 THEN Ret(m, 0) ELSE Frame(m, st[Len(st)])
    IN  Machine(SvmState(0, es, alive, fp, ch, st, out, log, app, cal, FALSE))

SvmInit ==
    /\ envs = <<GlobalScope, LocalsScope>>
    /\ arena_live = TRUE
    /\ fparams = LambdaParams
    /\ prog = [tokens |-> FluxTokens, sexprs |-> FluxSExprs]
    /\ cache = [id \in 0..(FluxSlots - 1) |-> UndefinedValue]
    /\ wstack = <<>>
    /\ outv = UndefinedValue
    /\ svm_rc = SVM_OK
    /\ svm_pc = "idle"
    /\ root = 0
    /\ evlog = <<>>
    /\ applied = NoApplication
    /\ called = NoCall
    /\ nevals = 0
    /\ nsvm = 0

\* svm_eval_expr(vm, locals, prog, expr, out) up to its step loop
EvalExpr(expr, locals) ==
    /\ svm_pc = "idle"
    /\ nevals < MaxEvals
    /\ nevals' = nevals + 1
    /\ nsvm' = 0
    /\ evlog' = <<>>
    /\ applied' = NoApplication
    /\ called' = NoCall
    /\ IF cache[expr].type # SYM_UNDEFINED
       THEN /\ outv' = cache[expr]
            /\ svm_rc' = SVM_OK
            /\ UNCHANGED <<wstack, svm_pc, root>>
       ELSE /\ wstack' = <<WorkItem(expr, IF locals # 0 THEN locals ELSE g_symtab, "", 0, expr)>>
            /\ svm_pc' = "running"
            /\ root' = expr
            /\ UNCHANGED <<outv, svm_rc>>
    /\ UNCHANGED <<envs, arena_live, fparams, cache, prog>>
    /\ UNCHANGED nonsvm

\* one turn of the loop of svm_eval_expr: r = svm_step(...), left on r <= 0
Step(ub) ==
    /\ svm_pc = "running"
    /\ nsvm < MaxSvmSteps
    /\ nsvm' = nsvm + 1
    /\ LET n == svm_step(envs, arena_live, fparams, cache, wstack, root, outv, evlog,
                         applied, called, ub)
       IN  /\ envs' = n.es
           /\ arena_live' = n.alive
           /\ fparams' = n.fp
           /\ cache' = n.ch
           /\ wstack' = n.st
           /\ outv' = n.out
           /\ evlog' = n.log
           /\ applied' = n.app
           /\ called' = n.cal
           /\ svm_pc' = IF n.crashed THEN "crashed" ELSE IF n.r = 1 THEN "running" ELSE "idle"
           /\ svm_rc' = IF n.crashed THEN svm_rc ELSE IF n.r = 1 THEN svm_rc
                        ELSE IF n.r < 0 THEN n.r ELSE SVM_OK
    /\ UNCHANGED <<root, nevals, prog>>
    /\ UNCHANGED nonsvm

SvmNext ==
    \/ \E expr \in TopLevel, locals \in 0..2 : EvalExpr(expr, locals)
    \/ \E ub \in Outcomes : Step(ub)

\* the applications of f, of g and of e handed to svm_eval_expr
ApplyTopLevel == {0, 18, 19, 20, 22}

SvmApplyNext ==
    \/ \E expr \in ApplyTopLevel, locals \in 0..2 : EvalExpr(expr, locals)
    \/ \E ub \in Outcomes : Step(ub)

(* ================================ main ================================== *)
\* the exit code of a process ended by a signal
SignalExit == 139

\* main returns -1: the exit status of the process
FailureExit == 255

\* the loop of svm_eval_expr: svm_step until it returns 0 or an error
RECURSIVE RunSteps(_, _, _, _)
RunSteps(m, rootid, ub, n) ==
    LET Stepped(s2) == IF s2.crashed \/ s2.r <= 0 \/ n = 1 THEN s2
                       ELSE RunSteps(s2, rootid, ub, n - 1)
    IN  Stepped(svm_step(m.es, m.alive, m.fp, m.ch, m.st, rootid, m.out, m.log, m.app,
                         m.cal, ub))

\* svm_eval_expr(vm, locals, prog, expr, &result): its return value, the
\* cache after it, whether it ended in a crash
svm_eval_expr(ch, locals, expr, ub) ==
    LET Ran(m) == [rc |-> IF m.r < 0 THEN m.r ELSE SVM_OK, ch |-> m.ch, out |-> m.out,
                   crashed |-> m.crashed]
    IN  IF ch[expr].type # SYM_UNDEFINED
        THEN [rc |-> SVM_OK, ch |-> ch, out |-> ch[expr], crashed |-> FALSE]
        ELSE Ran(RunSteps(SvmState(1, <<Scope(0, 32, <<>>)>>, TRUE, LambdaParams, ch,
                                   <<WorkItem(expr, IF locals # 0 THEN locals ELSE g_symtab,
                                              "", 0, expr)>>,
                                   UndefinedValue, <<>>, NoApplication, NoCall, FALSE),
                          expr, ub, MaxSvmSteps))

\* has_content of evaluate_program: a token of the expression is not IGNORE
HasContent(sx) ==
    \E i \in sx.start_idx..sx.end_idx : prog.tokens[i].type # "TOKEN_IGNORE"

MainInit ==
    /\ main_pc = "start"
    /\ exit_code = 0
    /\ failed = {}
    /\ nsexprs = 0
    /\ expr_idx = 0
    /\ eval_cache = [id \in 0..(FluxSlots - 1) |-> UndefinedValue]
    /\ eval_results = <<>>

\* return code from main, or the end of the process by a signal
Exit(code, stage) ==
    /\ main_pc' = "exited"
    /\ exit_code' = code
    /\ failed' = IF stage = "" THEN failed ELSE failed \cup {stage}

\* if (argc != 2) return -1
CheckArgs(argc) ==
    /\ main_pc = "start"
    /\ IF argc # 2 THEN Exit(FailureExit, "file")
       ELSE main_pc' = "read" /\ UNCHANGED <<exit_code, failed>>
    /\ UNCHANGED <<nsexprs, expr_idx, eval_cache, eval_results>>
    /\ UNCHANGED nonmain

\* file = read_file(argv[1])
ReadFile(ok) ==
    /\ main_pc = "read"
    /\ IF ~ok THEN Exit(FailureExit, "file")
       ELSE main_pc' = "lex" /\ UNCHANGED <<exit_code, failed>>
    /\ UNCHANGED <<nsexprs, expr_idx, eval_cache, eval_results>>
    /\ UNCHANGED nonmain

\* tokens = lex_tokens(file->data, file->size)
LexFile(ok) ==
    /\ main_pc = "lex"
    /\ IF ~ok THEN Exit(FailureExit, "lex")
       ELSE main_pc' = "annotate" /\ UNCHANGED <<exit_code, failed>>
    /\ UNCHANGED <<nsexprs, expr_idx, eval_cache, eval_results>>
    /\ UNCHANGED nonmain

\* err = annotate_tokens(tokens)
Annotate(err) ==
    /\ main_pc = "annotate"
    /\ IF err # 0 THEN Exit(FailureExit, "annotate")
       ELSE main_pc' = "parse" /\ UNCHANGED <<exit_code, failed>>
    /\ UNCHANGED <<nsexprs, expr_idx, eval_cache, eval_results>>
    /\ UNCHANGED nonmain

\* program = parse(tokens): NULL, or a flux of n s-expressions
ParseFile(ok, n) ==
    /\ main_pc = "parse"
    /\ IF ~ok THEN Exit(FailureExit, "parse") /\ UNCHANGED nsexprs
       ELSE main_pc' = "evaluate" /\ nsexprs' = n /\ UNCHANGED <<exit_code, failed>>
    /\ UNCHANGED <<expr_idx, eval_cache, eval_results>>
    /\ UNCHANGED nonmain

\* evaluate_program up to its loop: a failed allocation returns -1, and main
\* goes on to its cleanup
EvalSetup(ok) ==
    /\ main_pc = "evaluate"
    /\ main_pc' = IF ok THEN "loop" ELSE "cleanup"
    /\ failed' = IF ok THEN failed ELSE failed \cup {"setup"}
    /\ expr_idx' = 0
    /\ UNCHANGED <<exit_code, nsexprs, eval_cache, eval_results>>
    /\ UNCHANGED nonmain

\* one turn of the loop of evaluate_program
EvalOne(ub) ==
    /\ main_pc = "loop"
    /\ expr_idx < nsexprs
    /\ LET sx == prog.sexprs[expr_idx + 1]
           Evaluated(e) ==
               IF e.crashed
               THEN Exit(SignalExit, "eval") /\ UNCHANGED <<expr_idx, eval_cache, eval_results>>
               ELSE /\ eval_cache' = e.ch
                    /\ eval_results' = Append(eval_results, e.rc)
                    /\ failed' = IF e.rc = SVM_OK THEN failed ELSE failed \cup {"eval"}
                    /\ expr_idx' = expr_idx + 1
                    /\ UNCHANGED <<main_pc, exit_code>>
       IN  IF ~HasContent(sx)
           THEN /\ expr_idx' = expr_idx + 1
                /\ UNCHANGED <<main_pc, exit_code, failed, eval_cache, eval_results>>
           ELSE Evaluated(svm_eval_expr(eval_cache, 0, sx.id, ub))
    /\ UNCHANGED nsexprs
    /\ UNCHANGED nonmain

\* the end of evaluate_program: return 0
EvalEnd ==
    /\ main_pc = "loop"
    /\ expr_idx >= nsexprs
    /\ main_pc' = "cleanup"
    /\ UNCHANGED <<exit_code, failed, nsexprs, expr_idx, eval_cache, eval_results>>
    /\ UNCHANGED nonmain

\* err = vec_free(&tokens); if (err != 0) return -1; return 0
Cleanup(err) ==
    /\ main_pc = "cleanup"
    /\ Exit(IF err # 0 THEN FailureExit ELSE 0, "")
    /\ UNCHANGED <<nsexprs, expr_idx, eval_cache, eval_results>>
    /\ UNCHANGED nonmain

MainNext ==
    \/ \E argc \in 1..3 : CheckArgs(argc)
    \/ \E ok \in BOOLEAN : ReadFile(ok)
    \/ \E ok \in BOOLEAN : LexFile(ok)
    \/ \E err \in {0, -1} : Annotate(err)
    \/ \E ok \in BOOLEAN, n \in 0..MaxSExprs : ParseFile(ok, n)
    \/ \E ok \in BOOLEAN : EvalSetup(ok)
    \/ \E ub \in Outcomes : EvalOne(ub)
    \/ EvalEnd
    \/ \E err \in {0, -1} : Cleanup(err)

Init ==
    /\ GcInit /\ SymInit /\ LexInit /\ ParseInit /\ SvmInit /\ MainInit
    /\ ArenaInit /\ VecInit /\ FbInit /\ ScanInit /\ LayoutInit
    /\ RangeInit

GcSpec == Init /\ [][GcNext]_vars

GcApiSpec == Init /\ [][GcApiNext]_vars
GcLayoutSpec == Init /\ [][GcLayoutNext]_vars

SymSpec == Init /\ [][SymNext]_vars
SymCountSpec == Init /\ [][SymCountNext]_vars
\* lex_tokens runs to its end once called: nothing else is scheduled
ScanSpec == Init /\ [][ScanNext]_vars /\ WF_vars(ScanIterate) /\ WF_vars(ScanReturn)

LexSpec == Init /\ [][LexNext]_vars
LexRawSpec == Init /\ [][LexRawNext]_vars

ParseSpec == Init /\ [][ParseNext]_vars
ParseQuoteSpec == Init /\ [][ParseQuoteNext]_vars
ParseIntSpec == Init /\ [][ParseIntNext]_vars

SvmSpec == Init /\ [][SvmNext]_vars
SvmApplySpec == Init /\ [][SvmApplyNext]_vars

MainSpec == Init /\ [][MainNext]_vars

ArenaSpec == Init /\ [][ArenaNext]_vars
ArenaRangeSpec == Init /\ [][ArenaRangeNext]_vars

VecSpec == Init /\ [][VecNext]_vars

FbSpec == Init /\ [][FbNext]_vars

\* the attempts of one allocation request, in the order the claim gives
Canonical == <<"eden", "minor", "eden", "old", "major", "old">>

\* C4 as stated: an allocation request returns NULL only when the Eden bump,
\* the minor collection and second Eden bump, the Old bump, and the major
\* collection and second Old bump have all been tried, in this order, and
\* have all failed.
C4_NullOnlyAfterAllAttempts ==
    (pc = "idle" /\ nalloc > 0 /\ ret = NULL) => tried = Canonical

\* C4 amended: a request of non-zero size makes its attempts in the order
\* Eden, minor collection, Eden, Old, major collection, Old; it returns NULL
\* only when all of them failed; a collection is started only when the bump
\* attempts before it had no room; the pointer returned lies in the region of
\* the last attempt.  A request of size zero returns NULL without any attempt.
C4_AllocationOrder ==
    /\ Len(tried) <= Len(Canonical)
    /\ tried = SubSeq(Canonical, 1, Len(tried))
    /\ (nalloc > 0 /\ req = 0) => (ret = NULL /\ tried = <<>> /\ pc = "idle")
    /\ (nalloc > 0 /\ req # 0) =>
           LET total == ((req + DEFAULT_ALIGN - 1) \div DEFAULT_ALIGN) * DEFAULT_ALIGN
               edenRoom == EdenEnd - bump_ptr
               oldRoom == OldEnd - old_bump_ptr
           IN  /\ pc = "minor" => (tried = SubSeq(Canonical, 1, 2) /\ total > EdenEnd - pre.bump)
               /\ pc = "major" => (tried = SubSeq(Canonical, 1, 5)
                                   /\ total > edenRoom /\ total > oldRoom)
               /\ (pc = "idle" /\ ret = NULL) =>
                      (tried = Canonical /\ total > edenRoom /\ total > oldRoom)
               /\ (pc = "idle" /\ ret # NULL) =>
                      /\ tried # <<>>
                      /\ tried[Len(tried)] = "eden" =>
                             (InEden(ret) /\ bump_ptr = ret - SizeofGCInfo + total)
                      /\ tried[Len(tried)] = "old" =>
                             (InOld(ret) /\ old_bump_ptr = ret - SizeofGCInfo + total)
                      /\ tried[Len(tried)] \in {"eden", "old"}

\* a non-zero request that went through every attempt and came back NULL
C4_OutOfMemoryReached ==
    pc = "idle" /\ req # 0 /\ ret = NULL /\ tried = Canonical

(* ------------------------- symbol table claims ------------------------- *)
\* the bindings of name n that scope t holds (by the name the caller defined)
BindingsOf(tb, sy, t, n) ==
    {s \in 1..Len(sy) :
        /\ sy[s].gname = n
        /\ \E i \in 0..(tb[t].bucket_count - 1) :
              \E j \in 1..Len(tb[t].buckets[i]) : tb[t].buckets[i][j] = s}

\* C6: define/lookup round trip.  A lookup (local or chained) of a name whose
\* last successful define in that scope stored v yields a binding of that
\* name with value v; a chained lookup of a name never defined in the scope
\* or an ancestor yields NULL.
C6_DefineLookup ==
    (lastop.kind \in {"lookup", "lookup_local"} /\ lastop.name # <<>>) =>
        LET t == lastop.t
            n == lastop.name
        IN  /\ defval[t][n] # NoBinding =>
                   /\ found # 0
                   /\ syms[found].gname = n
                   /\ syms[found].value = defval[t][n].value
            /\ (lastop.kind = "lookup" /\ AbstractBinder(defval, ScopeChain(tabs, t), 1, n) = 0)
                   => found = 0

\* C7: environment shadowing.  With x defined in S, then a child C pushed and
\* x defined in C, a lookup of x from C yields C's value and a lookup of x
\* from S yields S's value.
C7_Shadowing ==
    (lastop.kind = "lookup" /\ lastop.name # <<>>) =>
        LET t == lastop.t
            x == lastop.name
            Shadows(S, C) == /\ tabs[C].parent = S
                             /\ defval[S][x] # NoBinding
                             /\ defval[C][x] # NoBinding
                             /\ defval[S][x].at < tabs[C].born
                             /\ tabs[C].born < defval[C][x].at
        IN  /\ (tabs[t].parent # 0 /\ Shadows(tabs[t].parent, t)) =>
                   (found # 0 /\ syms[found].value = defval[t][x].value)
            /\ (\E C \in OpenScopes : Shadows(t, C)) =>
                   (found # 0 /\ syms[found].value = defval[t][x].value)

\* C8: const safety.  When scope S holds a const binding of x, a call of
\* symtab_define(S, x, ...) or symtab_set(S, x, ...) returns an error and
\* leaves that binding as it was.
C8_ConstSafety ==
    [][(/\ nops' = nops + 1
        /\ lastop'.kind \in {"define", "set"}
        /\ \E s \in BindingsOf(tabs, syms, lastop'.t, lastop'.name) : IsConst(syms[s].flags))
       => (/\ rc' < 0
           /\ \A s \in BindingsOf(tabs, syms, lastop'.t, lastop'.name) : syms'[s] = syms[s])]_vars

\* the nearest scope from t that holds a binding of n
RECURSIVE NearestHolder(_, _, _, _, _)
NearestHolder(tb, sy, chainOfScopes, i, n) ==
    IF i > Len(chainOfScopes) THEN 0
    ELSE IF BindingsOf(tb, sy, chainOfScopes[i], n) # {} THEN chainOfScopes[i]
    ELSE NearestHolder(tb, sy, chainOfScopes, i + 1, n)

\* C9: symtab_set updates only the binding of n in the nearest scope that
\* binds n; it returns -2 and changes nothing when no scope on the chain binds
\* n, and -3 and changes nothing when the nearest binding is const.
C9_SetFrame ==
    [][(nops' = nops + 1 /\ lastop'.kind = "set" /\ lastop'.name # <<>>) =>
          LET n == lastop'.name
              h == NearestHolder(tabs, syms, ScopeChain(tabs, lastop'.t), 1, n)
              bs == BindingsOf(tabs, syms, h, n)
          IN  IF h = 0 THEN rc' = -2 /\ syms' = syms
              ELSE IF \E s \in bs : IsConst(syms[s].flags) THEN rc' = -3 /\ syms' = syms
              ELSE /\ rc' = 0
                   /\ \E s \in bs : syms'[s].value = lastop'.value
                   /\ \A s \in (1..Len(syms)) \ bs : syms'[s] = syms[s]]_vars

\* C10: scope push/pop round trip.  symtab_pop_scope of a pushed child returns
\* the parent, and every binding the parent holds is still in storage that
\* has not been released.
C10_PushPop ==
    lastop.kind = "pop" =>
        /\ lastop.ret = tabs[lastop.t].parent
        /\ lastop.ret = scopes[Len(scopes)]
        /\ \A n \in Names :
               \A s \in BindingsOf(tabs, syms, lastop.ret, n) :
                   blocks[syms[s].blk].live /\ blocks[syms[s].nameblk].live

\* C11: symtab_remove(S, n) removes S's own binding of n and returns 0 when
\* that binding is not const; it returns -3 and changes nothing when it is
\* const; it returns -2 when S itself holds no binding of n; and it leaves
\* every other scope as it was.
C11_RemoveLocal ==
    [][(nops' = nops + 1 /\ lastop'.kind = "remove" /\ lastop'.name # <<>>) =>
          LET t == lastop'.t
              n == lastop'.name
              bs == BindingsOf(tabs, syms, t, n)
          IN  /\ \A t2 \in (1..Len(tabs)) \ {t} : tabs'[t2] = tabs[t2]
              /\ IF bs = {} THEN rc' = -2 /\ tabs' = tabs
                 ELSE IF \E s \in bs : IsConst(syms[s].flags)
                 THEN rc' = -3 /\ tabs' = tabs /\ syms' = syms
                 ELSE rc' = 0 /\ BindingsOf(tabs', syms', t, n) = {}]_vars

\* C12 as stated: the byte spans of the tokens of a well-formed program text,
\* concatenated in order, are the text itself.
C12_SpansAreText ==
    lexed => SpanConcat(source, tokens, 1) = source

\* C12 amended: the byte spans of the tokens of a well-formed program text,
\* concatenated in order, are the text with its white space and comments
\* left out; the spans are non-empty, lie inside the text and follow each
\* other without overlap.
C12_SpansAreTextWithoutBlanks ==
    lexed =>
        /\ SpanConcat(source, tokens, 1) = shape.stripped
        /\ \A i \in 1..Len(tokens) :
               /\ tokens[i].value_len >= 1
               /\ tokens[i].value >= 1
               /\ tokens[i].value + tokens[i].value_len - 1 <= Len(source)
               /\ i > 1 => tokens[i - 1].value + tokens[i - 1].value_len <= tokens[i].value

\* a lexed text that holds a comment or white space between its tokens
C12_BlanksLexed ==
    lexed /\ Len(tokens) >= 2 /\ shape.stripped # source

\* the nesting depth after the first i tokens, -1 once a closing parenthesis
\* had no opening one to match
RECURSIVE DepthAfter(_, _)
DepthAfter(toks, i) ==
    IF i = 0 THEN 0
    ELSE LET d == DepthAfter(toks, i - 1)
         IN  IF d < 0 THEN -1
             ELSE IF toks[i].type = "TOKEN_LPAREN" THEN d + 1
             ELSE IF toks[i].type = "TOKEN_RPAREN" THEN d - 1
             ELSE d

Balanced(toks) == DepthAfter(toks, Len(toks)) = 0

NoErrorToken(toks) == \A i \in 1..Len(toks) : toks[i].type # "TOKEN_ERROR"

OnlyIgnored(toks) ==
    Len(toks) > 0 /\ \A i \in 1..Len(toks) : toks[i].type = "TOKEN_IGNORE"

RECURSIVE UnparseNode(_), UnparseSeq(_)
UnparseNode(node) ==
    CASE node.type = "NODE_LIST" ->
            <<"TOKEN_LPAREN">> \o UnparseSeq(node.car) \o <<"TOKEN_RPAREN">>
      [] node.type = "NODE_QUOTE" -> <<"TOKEN_QUOTE">> \o UnparseSeq(node.car)
      [] node.type = "NODE_QUASIQUOTE" -> <<"TOKEN_BACKQUOTE">> \o UnparseSeq(node.car)
      [] node.type = "NODE_UNQUOTE" -> <<"TOKEN_COMMA">> \o UnparseSeq(node.car)
      [] node.type = "NODE_ATOM_INT" -> <<"TOKEN_INTEGER">>
      [] node.type = "NODE_ATOM_FLOAT" -> <<"TOKEN_FLOAT">>
      [] node.type = "NODE_ATOM_STR" -> <<"TOKEN_STRING">>
      [] node.type = "NODE_ATOM_UNINTERNED" -> <<"TOKEN_UNINTERNED_SYMBOL">>
      [] OTHER -> <<"TOKEN_IDENTIFIER">>

UnparseSeq(nodes) ==
    IF nodes = <<>> THEN <<>>
    ELSE UnparseNode(nodes[1]) \o UnparseSeq(Tail(nodes))

\* every quote family node of the expressions wraps exactly one expression
RECURSIVE QuotesWrapOne(_)
QuotesWrapOne(nodes) ==
    \A i \in 1..Len(nodes) :
        /\ IsQuoteFamily(nodes[i].type) => Len(nodes[i].car) = 1
        /\ QuotesWrapOne(nodes[i].car)

\* the types of the tokens other than IGNORE
RECURSIVE TypesOf(_)
TypesOf(toks) ==
    IF toks = <<>> THEN <<>>
    ELSE (IF toks[1].type = "TOKEN_IGNORE" THEN <<>> ELSE <<toks[1].type>>)
         \o TypesOf(Tail(toks))

QuoteTokenTypes == {"TOKEN_QUOTE", "TOKEN_BACKQUOTE", "TOKEN_COMMA"}

\* a quote family token is the last element of a list
TrailingQuote(toks) ==
    LET ty == TypesOf(toks)
    IN  \E i \in 1..(Len(ty) - 1) :
            ty[i] \in QuoteTokenTypes /\ ty[i + 1] = "TOKEN_RPAREN"

\* C14: in every non-null parser result each quote, quasiquote or unquote
\* token of the input is a wrapper node around exactly the one expression
\* that follows it, at top level and inside lists; a quote family token that
\* is the trailing element of a list makes the parse fail.
C14_QuotesWrapNext ==
    parsed =>
        /\ program.ok => /\ QuotesWrapOne(program.items)
                         /\ UnparseSeq(program.items) = TypesOf(ptokens)
        /\ TrailingQuote(ptokens) => ~program.ok

(* ------------------------------- C15 ----------------------------------- *)
\* the functions f, h and k are bound in the caller's environment, scope 1,
\* where x = 10: that is the environment of their definition
DefinitionValue == IntValue(10)

\* C15: the body of a function is evaluated in a child scope of the
\* environment the function was created in, so the free variable x of the
\* body of f (expression 1) has its definition-site value, also when the
\* call site binds x differently
C15_LexicalScope ==
    /\ (applied.fn # "" /\ applied.r = 1) => envs[applied.scope].parent = applied.home
    /\ cache[1].type # SYM_UNDEFINED => cache[1] = DefinitionValue

(* ------------------------------- C16 ----------------------------------- *)
\* C16: a function applied to a number of arguments other than its number of
\* parameters gives an error code, and its body is not evaluated
C16_ArityMismatchIsError ==
    (applied.fn # "" /\ applied.nargs # applied.nparams)
        => /\ applied.r < 0
           /\ \A j \in 1..Len(wstack) : wstack[j].expr # SentinelId

(* ------------------------------- C17 ----------------------------------- *)
\* C17: the arguments of one call are evaluated from left to right: in the
\* order of evaluation their tokens only move to the right
C17_LeftToRight ==
    \A i, j \in 1..Len(evlog) :
        (i < j /\ evlog[i].call = evlog[j].call) => evlog[i].at < evlog[j].at

(* ------------------------------- C19 ----------------------------------- *)
\* the arguments of the last call of a built-in are all numbers
NumericArgs == \A i \in 1..Len(called.args) : IsNumber(called.args[i])

\* C19: +, - and * of numeric arguments give an integer exactly when every
\* argument is an integer and a float otherwise; a non-numeric argument gives
\* a type error and no result
C19_ArithmeticTags ==
    (called.fn \in {"bltn_add", "bltn_sub", "bltn_mul"} /\ called.argsok)
        => /\ ~called.res.crashed
           /\ IF NumericArgs
              THEN /\ called.res.rc = SVM_OK
                   /\ called.res.wrote
                   /\ called.res.out.type
                        = IF AllInt(called.args) THEN SYM_INTEGER ELSE SYM_FLOAT
              ELSE /\ called.res.rc = SVM_ERR_TYPE
                   /\ ~called.res.wrote

(* ------------------------------- C20 ----------------------------------- *)
\* a divisor is zero: the sole argument, or an argument after the first
ZeroDivisor(args) ==
    IF Len(args) = 1 THEN args[1].num = 0
    ELSE \E i \in 2..Len(args) : args[i].num = 0

\* the reciprocal of one argument, the left-to-right quotient of several
Quotient(args) ==
    LET Float(q) == FloatValue(q.num, q.den)
    IN  IF Len(args) = 1 THEN FloatValue(args[1].den, args[1].num)
        ELSE Float(FoldArgs("div", Frac(args[1]), args, 2))

\* C20: / gives an error and writes no result when a divisor is zero; with
\* non-zero divisors it gives the float reciprocal of one argument or the
\* float left-to-right quotient of several
C20_Division ==
    (called.fn = "bltn_div" /\ called.argsok /\ Len(called.args) >= 1 /\ NumericArgs)
        => /\ ~called.res.crashed
           /\ IF ZeroDivisor(called.args)
              THEN called.res.rc # SVM_OK /\ ~called.res.wrote
              ELSE /\ called.res.rc = SVM_OK
                   /\ called.res.wrote
                   /\ called.res.out = Quotient(called.args)

(* ------------------------------- C18 ----------------------------------- *)
\* C18: the process exits with code 0 only when no stage failed: the file was
\* there, lexing and parsing succeeded and every expression evaluated
C18_ExitCode ==
    (main_pc = "exited" /\ exit_code = 0)
        => /\ failed \cap {"file", "lex", "annotate", "parse", "eval"} = {}
           /\ \A i \in 1..Len(eval_results) : eval_results[i] = SVM_OK

(* ------------------------------- C21 ----------------------------------- *)
\* C21: after an arena that grew by chaining blocks is freed through the
\* handle its owner holds, no block created for it is still allocated
C21_FreeReleasesChain ==
    (alast.kind = "free" /\ agrown # {})
        => \A i \in 1..Len(ablocks) : ~ablocks[i].live

(* ------------------------------- C29 ----------------------------------- *)
MaxOf(a, b) == IF a >= b THEN a ELSE b

\* the block chained by the last call is linked after the block that was
\* current, is the current block now, and the request lies at its start
ServedFromNewBlock ==
    (alast.kind = "alloc" /\ alast.grew)
        => /\ ablocks[alast.before].next = alast.ret
           /\ ahandle = alast.ret
           /\ alast.off = 0
           /\ ablocks[alast.ret].offset = alast.size

\* the capacities a default block could have
DefaultBlocks == 0..(2 * MaxOf(40, 32))

\* C29 as stated: a request that does not fit chains a block of capacity
\* max(size, max(previous_capacity, default_block)), for one default_block
C29_NewBlockCapacityMax ==
    /\ \E default_block \in DefaultBlocks :
           \A g \in agrown : g.cap = MaxOf(g.size, MaxOf(g.prev, default_block))
    /\ ServedFromNewBlock

\* C29: a request that does not fit chains a block whose capacity is the
\* previous capacity, or twice the size when the size exceeds it; the block is
\* linked after the current one, becomes current and serves the request
C29_NewBlockCapacity ==
    /\ \A g \in agrown : g.cap = IF g.size > g.prev THEN 2 * g.size ELSE g.prev
    /\ ServedFromNewBlock

\* a request larger than the current block was served from a chained block
C29_ChainedLarger ==
    /\ alast.kind = "alloc" /\ alast.grew
    /\ alast.size > ablocks[alast.before].capacity
    /\ Cardinality(agrown) >= 2

(* ------------------------------- C22 ----------------------------------- *)
\* what symtab_lookup(t, name) returns in the current state: the scope and
\* position of the symbol, scope 0 for NULL
LookupNow(t, name) ==
    IF Len(name) = 0 THEN [scope |-> 0, pos |-> 0, visited |-> 0]
    ELSE FirstBinder(tabs, syms, ScopeChain(tabs, t), 1, name,
                     symtab_hash(name, Len(name)))

\* C22: symtab_exists(T, n) is true exactly when T or one of its ancestors
\* holds a binding named n, which is exactly when symtab_lookup(T, n) is
\* non-NULL
C22_ExistsIffLookup ==
    lastop.kind = "exists"
        => /\ (lastop.ret = 1) <=> (LookupNow(lastop.t, lastop.name).scope # 0)
           /\ (lastop.ret = 1)
                <=> (AbstractBinder(defval, ScopeChain(tabs, lastop.t), 1, lastop.name) # 0)

(* ------------------------------- C23 ----------------------------------- *)
\* C23: after any calls of vec_push, vec_pop_get, vec_pop_discard, vec_del,
\* vec_rem and vec_clear, the vector answers vec_len, vec_at and vec_peek as
\* the sequence of the elements pushed and not yet removed does, and the last
\* call returned what the same operation returns on that sequence
C23_VecRefinesSequence ==
    /\ vlast.kind # "crash"
    /\ vec_len(vec) = Len(vabs)
    /\ \A idx \in VecSlots :
           vec_at(vec, idx) = IF idx < Len(vabs) THEN <<vabs[idx + 1]>> ELSE <<>>
    /\ vec_peek(vec) = SeqLast(vabs)
    /\ vlast.rc = vlast.want_rc
    /\ vlast.out = vlast.want_out

(* ------------------------------- C24 ----------------------------------- *)
\* what is reachable from the roots and from the old generation
LiveNow ==
    Reach(mem, RootSet(stack)
               \cup SlotTargets(mem, OldBodies(mem, OldStart, old_bump_ptr)))

\* C24: right after a minor collection the Eden bump pointer is at the Eden
\* start, and neither Eden nor the previous from-survivor holds a reachable
\* object
C24_MinorAtomicity ==
    (pc = "minor" /\ pre.cb = NoCallback) =>
        /\ bump_ptr = EdenStart
        /\ \A b \in LiveNow :
               /\ ~InEden(gc_header_from_obj(b))
               /\ ~InFromSurvivor(gc_header_from_obj(b), pre.flag)

(* ------------------------------- C25 ----------------------------------- *)
\* C25: a minor collection moves every reachable young object: one whose age
\* is below promotion_age_threshold - 1 into the to-space with its age
\* incremented by one, every other into the old generation with age 0 and
\* generation old; an object allocated with age 0 therefore spends exactly
\* promotion_age_threshold - 1 collections in the nursery
C25_PromotionAge ==
    (pc = "minor" /\ pre.cb = NoCallback) =>
        \A h \in pre.young :
            (h + SizeofGCInfo) \in PreLive =>
                LET Moved(age, copy) ==
                        IF age + 1 < PromotionAgeThreshold
                        THEN /\ copy >= ToStart(pre.flag)
                             /\ copy < ToEnd(pre.flag)
                             /\ Rd(mem, copy + OffAge) = age + 1
                        ELSE /\ InOld(copy)
                             /\ Rd(mem, copy + OffAge) = 0
                             /\ Rd(mem, copy + OffGen) = 1
                IN  Moved(Rd(pre.mem, h + OffAge), Rd(mem, h + OffFwd))

(* ------------------------------- C26 ----------------------------------- *)
\* C26: when the last minor collection left a surviving object behind for
\* lack of room and did not promote it to the old generation, the allocation
\* that triggered the collection returns NULL
C26_OverflowFallback ==
    (pc = "idle" /\ Len(tried) >= 2 /\ tried[2] = "minor" /\ pre.left # {}
     /\ pre.cb = NoCallback)
        => ret = NULL

(* ------------------------------- C27 ----------------------------------- *)
\* C27: an allocation call made while collection_in_progress is set returns
\* NULL at once: no bump pointer moves and no minor or major collection is
\* started
C27_NoAllocationDuringCollection ==
    pre.cb.which # "none"
        => /\ pre.cb.ret = NULL
           /\ ~pre.cb.bumped
           /\ ~pre.cb.minor
           /\ ~pre.cb.major

(* ------------------------------- C28 ----------------------------------- *)
\* C28: right after a minor collection the header of every object in the
\* to-space and of every object in the old generation has a null forwarding
\* pointer
C28_NoForwardingLeft ==
    pc = "minor" =>
        /\ \A h \in young : Rd(mem, h + OffFwd) = NULL
        /\ \A b \in OldBodies(mem, OldStart, old_bump_ptr) :
               Rd(mem, gc_header_from_obj(b) + OffFwd) = NULL

(* ------------------------------- C30 ----------------------------------- *)
\* the tokens whose span holds position p
Covering(p) ==
    {i \in 1..Len(tokens) : tokens[i].value <= p /\ p < tokens[i].value + tokens[i].value_len}

\* position p is white space, or text of a line comment: it follows a ';'
\* that no token holds, with no newline from that ';' up to p
BlankAt(p) ==
    \/ isspace(source[p])
    \/ \E q \in 1..p :
           /\ source[q] = ChSemi
           /\ Covering(q) = {}
           /\ \A r \in (q + 1)..p : source[r] # ChNewline

\* C30: every byte of the input that lies in no recognised token and is
\* neither white space nor comment text has exactly one token at it, an ERROR
\* token of one byte that starts at that byte: no such byte is consumed
\* without a token, and scanning went on at the byte after it
C30_ErrorRecovery ==
    lexed =>
        \A p \in 1..Len(source) :
            (/\ ~BlankAt(p)
             /\ \A i \in Covering(p) : tokens[i].type = "TOKEN_ERROR")
                => /\ Cardinality(Covering(p)) = 1
                   /\ \A i \in Covering(p) :
                          tokens[i].value = p /\ tokens[i].value_len = 1

(* ------------------------------- C31 ----------------------------------- *)
\* C31: the tokens lex_tokens returns are in source order: every span is
\* non-empty, lies inside the input, and starts at or after the end of the
\* span before it; and no byte behind the input was read, so the tokens are
\* the same whatever lies there
C31_TokensInSourceOrder ==
    lexed =>
        /\ \A i \in 1..Len(tokens) :
               /\ tokens[i].value_len >= 1
               /\ tokens[i].value >= 1
               /\ tokens[i].value + tokens[i].value_len - 1 <= Len(source)
               /\ i > 1 => tokens[i].value >= tokens[i - 1].value + tokens[i - 1].value_len
        /\ \A beyond \in BeyondBytes : lex_tokens(source, beyond) = tokens

(* ------------------------------- C32 ----------------------------------- *)
\* the length of the run of quote, backquote and comma tokens that ends
\* right before position i
RECURSIVE QuoteRunBefore(_, _)
QuoteRunBefore(toks, i) ==
    IF i > 1 /\ toks[i - 1].type \in {"TOKEN_QUOTE", "TOKEN_BACKQUOTE", "TOKEN_COMMA"}
    THEN 1 + QuoteRunBefore(toks, i - 1)
    ELSE 0

\* C32: when a token vector holds an expression with more than
\* MAX_CONSECUTIVE_QUOTES quote, backquote or comma tokens in front of it,
\* the parser returns the null result
C32_QuoteOverflowIsError ==
    (parsed /\ \E i \in 1..Len(ptokens) :
                   /\ ptokens[i].type \in {"TOKEN_IDENTIFIER", "TOKEN_LPAREN"}
                   /\ QuoteRunBefore(ptokens, i) > MAX_CONSECUTIVE_QUOTES)
        => ~program.ok

(* ------------------------------- C33 ----------------------------------- *)
\* the node an INTEGER token stands for: an INT node with the decimal value
\* of the whole text when that value is in [LLONG_MIN, LLONG_MAX], a SYMBOL
\* node with the whole text otherwise
IntegerNode(text) ==
    LET Node(neg, digits) ==
            IF DigitsLE(digits, IF neg THEN LLONG_MIN_DIGITS ELSE LLONG_MAX_DIGITS)
            THEN make_text_atom((IF neg /\ StripZeros(digits) # <<>> THEN <<ChMinus>>
                                 ELSE <<>>) \o StripZeros(digits), "NODE_ATOM_INT")
            ELSE make_text_atom(text, "NODE_ATOM_SYM")
    IN  IF text[1] \in {ChMinus, ChPlus} THEN Node(text[1] = ChMinus, Tail(text))
        ELSE Node(FALSE, text)

\* C33: of INTEGER tokens of any length the parser makes, for each, an INT
\* node holding the token's decimal value when it fits a signed 64-bit
\* integer, and a SYMBOL node carrying the token's full text otherwise
C33_IntegerOrSymbol ==
    (parsed /\ ptokens # <<>> /\ \A i \in 1..Len(ptokens) : ptokens[i].type = "TOKEN_INTEGER")
        => /\ program.ok
           /\ Len(program.items) = Len(ptokens)
           /\ \A i \in 1..Len(ptokens) : program.items[i] = IntegerNode(ptokens[i].text)

(* ------------------------------- C34 ----------------------------------- *)
\* C34: find_builtin returns, for each of the 29 built-in names, the entry
\* of that name, in a slot and with a BuiltinType no other name has, and the
\* type indexes a defined entry of the dispatch table; for every other string
\* of 1 to 10 bytes it returns null; and every BuiltinType value indexes a
\* defined entry of the dispatch table
C34_PerfectHash ==
    fb_last.str # <<>> =>
        /\ Cardinality(BuiltinNames) = 29
        /\ fb_last.str \in BuiltinNames =>
               /\ fb_last.ret.found
               /\ wordlist[fb_last.ret.key + 1].name = fb_last.str
               /\ fb_last.ret.key = hash_str(fb_last.str, Len(fb_last.str))
               /\ \A other \in BuiltinNames \ {fb_last.str} :
                      /\ find_builtin(other, Len(other)).found
                      /\ find_builtin(other, Len(other)).key # fb_last.ret.key
                      /\ wordlist[find_builtin(other, Len(other)).key + 1].type
                             # wordlist[fb_last.ret.key + 1].type
               /\ EnumValue(wordlist[fb_last.ret.key + 1].type) < DispatchLen
               /\ DispatchAt(EnumValue(wordlist[fb_last.ret.key + 1].type)) # "NULL"
        /\ (fb_last.str \notin BuiltinNames /\ Len(fb_last.str) <= MAX_WORD_LENGTH) =>
               ~fb_last.ret.found
        /\ \A v \in 0..(Len(BuiltinType) - 1) : v < DispatchLen /\ DispatchAt(v) # "NULL"

\* "procedure?", the longest name, was looked up and found
C34_LongestNameFound ==
    /\ fb_last.str = <<112, 114, 111, 99, 101, 100, 117, 114, 101, 63>>
    /\ fb_last.ret.found

\* the argument of an application (g n) of the flux: its last token
ArgumentOf(id) ==
    IntValue(FluxTokens[FluxSExprs[FindSExpr(id)].end_idx].text[1] - 48)

\* an application of fn, called from a scope, has returned to svm_eval_expr
ApplicationReturned(fn) ==
    svm_pc = "idle" /\ nevals > 0 /\ applied.fn = fn /\ applied.call = root

\* C35: an application of a user-defined function returns the value of the
\* last body form computed in that call's own scope: (g 1) and (g 2), g
\* returning its parameter, each return their own argument, and an
\* application of f from the global scope returns the x of that scope, never
\* a value computed during an earlier application
C35_OwnArguments ==
    /\ ApplicationReturned("g") => (svm_rc = SVM_OK /\ outv = ArgumentOf(root))
    /\ (ApplicationReturned("f") /\ applied.env = 1)
           => (svm_rc = SVM_OK /\ outv = IntValue(10))

\* C37: svm_eval_expr always returns: the step loop is left after finitely
\* many steps, here fewer than MaxSvmSteps, which every evaluation of the flux
\* that returns stays below, also for an argument expression that calls a
\* function with an empty body, and the work stack never holds more frames
\* than its capacity
C37_EvaluationReturns ==
    /\ Len(wstack) <= StackCapacity
    /\ svm_pc = "running" => nsvm < MaxSvmSteps

\* the region an allocation record names
RegionStart(region) == IF region = "old" THEN OldStart ELSE EdenStart
RegionEnd(region) == IF region = "old" THEN OldEnd ELSE EdenEnd

\* the byte ranges [lo1, hi1) and [lo2, hi2) share nothing
Disjoint(lo1, hi1, lo2, hi2) == hi1 <= lo2 \/ hi2 <= lo1

\* C36: of the payloads returned with no collection in between, each has its
\* header at p - H (the header still holds the object's size), lies with its
\* header inside the region it was allocated in, and shares no byte with the
\* header or the payload of any other
C36_PayloadLayout ==
    \A i \in 1..Len(allocated) :
        /\ Rd(mem, gc_header_from_obj(allocated[i].ptr) + OffSize)
               = align_up(allocated[i].size, DEFAULT_ALIGN)
        /\ gc_header_from_obj(allocated[i].ptr) >= RegionStart(allocated[i].region)
        /\ allocated[i].ptr + allocated[i].size <= RegionEnd(allocated[i].region)
        /\ \A j \in 1..Len(allocated) :
               j # i => Disjoint(allocated[i].ptr, allocated[i].ptr + allocated[i].size,
                                 gc_header_from_obj(allocated[j].ptr),
                                 allocated[j].ptr + allocated[j].size)

\* C39: every range arena_alloc returned since the arena was created or last
\* reset lies inside a single block of the chain, starts at a multiple of the
\* word size (the blocks are page-aligned mappings) and shares no byte with
\* another of these ranges
C39_RangesDisjoint ==
    \A i \in 1..Len(areturned) :
        /\ areturned[i].size > 0
        /\ areturned[i].off + areturned[i].size <= ablocks[areturned[i].blk].capacity
        /\ areturned[i].off % ARENA_ALIGNMENT = 0
        /\ \A j \in 1..Len(areturned) :
               (j # i /\ areturned[j].blk = areturned[i].blk)
                   => Disjoint(areturned[i].off, areturned[i].off + areturned[i].size,
                               areturned[j].off, areturned[j].off + areturned[j].size)

\* C40: in every scope, after any sequence of symtab_define and symtab_remove
\* calls that returned, symbol_count equals the number of symbols on the
\* scope's bucket chains, the value symtab_size returns
C40_CountMatchesSize ==
    ~crashed => \A t \in 1..Len(tabs) : tabs[t].symbol_count = symtab_size(tabs[t])

\* a symbol was removed from a scope that still holds another
C40_RemovedOne ==
    /\ lastop.kind = "remove" /\ lastop.rc = 0
    /\ tabs[lastop.t].symbol_count = 1
    /\ symtab_size(tabs[lastop.t]) = 1

\* C38: lex_tokens returns on every text of finite length: each iteration of
\* the scanning loop, the rewind from a malformed exponent into the identifier
\* branch and the unterminated string included, leaves the read position at
\* least one byte further than it found it, so the loop runs at most once per
\* byte of the text
C38_EveryIterationAdvances ==
    /\ [](scan.n > 0 => scan.ptr >= scan.start + 1)
    /\ [](scan.n <= Len(source))
    /\ (scan.pc = "loop") ~> (scan.pc = "returned")

\* a call that returned after a rewind and an unterminated string
C38_RewoundAndOpen ==
    /\ scan.pc = "returned"
    /\ {"rewind", "open string"} \subseteq scan.ways
    /\ scan.way = "open string"
    /\ scan.ptr = Len(source) + 1

====
